---- MODULE Spec2Model ----
(***************************************************************************)
(* Conversation orchestration core of the humanlike chatbot:              *)
(*   chatbot/services/runchat.py      run_chat_round, save_chat_to_db      *)
(*   chatbot/services/followup.py     generate_followup_message,           *)
(*                                    run_followup_chat_round, reset flag  *)
(*   chatbot/services/conversation.py InitializeConversationAPIView        *)
(*   chatbot/services/moderation.py   moderate_message                     *)
(* Texts are sequences of words; the durable store is a per-conversation   *)
(* sequence of Utterance records in creation order; the cache is a map     *)
(* from conversation id to an optional list of {role, content} entries.    *)
(* A turn is a task that advances from one suspension point (await) to the *)
(* next.                                                                   *)
(***************************************************************************)
EXTENDS Integers, Sequences, FiniteSets, TLC

VARIABLES
    conversations,  \* conversation ids with a Conversation row
    utter,          \* conversation id -> sequence of Utterance rows
    cache,          \* conversation id -> conversation_cache_<id> entry
    coolTtl,        \* conversation id -> time to live of followup_sent_<id>
    onceTtl,        \* conversation id -> time to live of followup_sent_once_<id>
    tasks,          \* task id -> the turn it runs and where it stands
    userAge,        \* conversation id -> seconds since its last user row
    lastFu,         \* history: the follow-up call that has just replied
    fuInPeriod,     \* history: conversation id -> follow-up replies of
                    \* non-recurring bots since the last user row or reset
    call,           \* the call of a service function under study:
                    \* its arguments, where it stands and its result
    engine_instances,   \* (provider, model id) -> engine, the module's dict
    initialised,    \* history: (provider, model id) -> engines initialised
    bot_rows        \* bot name -> the follow-up settings of its Bot row, as
                    \* the configuration paths write them

vars == <<conversations, utter, userAge, cache, coolTtl, onceTtl,
          tasks, lastFu, fuInPeriod, call, engine_instances, initialised,
          bot_rows>>

engines == <<engine_instances, initialised>>

----------------------------------------------------------------------------
(* Bounds of the model *)

MaxRows == 4
MaxDrift == 1

----------------------------------------------------------------------------
(* Program constants *)

CooldownTimeout == 30
OnceTimeout == 3600
SecondsPerMinute == 60
Marker == "[FOLLOW-UP REQUEST]"

----------------------------------------------------------------------------
(* Inputs *)

Convs == {"c1", "c2"}
TaskIds == {1}
KnownBots == {"plain", "brief", "once", "recur"}
BotNames == KnownBots \cup {"ghost"}

Hello == <<"hello">>
Bad == <<"bad">>
Forged == <<Marker, "hello">>
UserMessages == {Hello, Bad, Forged}
Replies == {<<"fine">>}

\* The rows of the Bot table.
Bot(b) ==
    CASE b = "plain" ->
           [name |-> "plain", max_transcript_length |-> 0,
            follow_up_on_idle |-> FALSE, follow_up_instruction_prompt |-> <<>>,
            recurring_followup |-> FALSE, idle_time_minutes |-> 2,
            initial_utterance |-> <<>>]
      [] b = "brief" ->
           [name |-> "brief", max_transcript_length |-> 1,
            follow_up_on_idle |-> FALSE, follow_up_instruction_prompt |-> <<>>,
            recurring_followup |-> FALSE, idle_time_minutes |-> 2,
            initial_utterance |-> <<>>]
      [] b = "once" ->
           [name |-> "once", max_transcript_length |-> 2,
            follow_up_on_idle |-> TRUE,
            follow_up_instruction_prompt |-> <<"check", "in">>,
            recurring_followup |-> FALSE, idle_time_minutes |-> 1,
            initial_utterance |-> <<"welcome">>]
      [] OTHER ->
           [name |-> "recur", max_transcript_length |-> -1,
            follow_up_on_idle |-> TRUE,
            follow_up_instruction_prompt |-> <<"nudge">>,
            recurring_followup |-> TRUE, idle_time_minutes |-> 0,
            initial_utterance |-> <<>>]

\* The follow-up settings of a Bot row.
FollowupSettings(bot) ==
    [follow_up_on_idle |-> bot.follow_up_on_idle,
     follow_up_instruction_prompt |-> bot.follow_up_instruction_prompt]

----------------------------------------------------------------------------
(* Pure helpers *)

Max(a, b) == IF a >= b THEN a ELSE b
Min(a, b) == IF a <= b THEN a ELSE b

AllButLast(s) == IF Len(s) = 0 THEN <<>> ELSE SubSeq(s, 1, Len(s) - 1)

\* Variant: the marker check is lost.
NeverMarked(m) == FALSE

\* message.startswith("[FOLLOW-UP REQUEST]")
StartsWithMarker(m) == Len(m) > 0 /\ m[1] = Marker

Entry(role, content) == [role |-> role, content |-> content]

\* The {role, content} list built from the Utterance rows of a conversation.
HistoryFromUtterances(us) ==
    [i \in 1..Len(us) |->
        Entry(IF us[i].speaker_id = "user" THEN "user" ELSE "assistant",
              us[i].text)]

\* Variant: the slice keeps the oldest entries, conversation_history[:L].
TruncateKeepFirst(h, L) ==
    IF L > 0 THEN SubSeq(h, 1, Min(L, Len(h)))
    ELSE IF L = 0 THEN <<>>
    ELSE h

\* conversation_history[-L:], [] or unchanged, by the sign of L.
Truncate(h, L) ==
    IF L > 0 THEN SubSeq(h, Max(Len(h) - L, 0) + 1, Len(h))
    ELSE IF L = 0 THEN <<>>
    ELSE h

\* Variant: the new message is appended before the limit is applied.
BuildHistoryAppendFirst(h, L, m) == Truncate(h \o <<Entry("user", m)>>, L)

\* The truncated history with the new message appended after truncation.
BuildHistory(h, L, m) == Truncate(h, L) \o <<Entry("user", m)>>

\* The ChatMessage list handed to Kani.
FormatForKani(h) ==
    [i \in 1..Len(h) |->
        Entry(IF h[i].role = "user" THEN "user" ELSE "assistant",
              h[i].content)]

\* json.dumps of a {role, content} list: a flat token sequence.
RECURSIVE DumpEntries(_)
DumpEntries(h) ==
    IF Len(h) = 0 THEN <<>>
    ELSE <<<<h[1].role>>, h[1].content>> \o DumpEntries(Tail(h))

Serialize(h) == <<<<"[">>>> \o DumpEntries(h) \o <<<<"]">>>>

\* json.loads of such a token sequence.
Deserialize(s) ==
    [i \in 1..((Len(s) - 2) \div 2) |-> Entry(s[2 * i][1], s[2 * i + 1])]

\* Variant: the new message is not cut off, json.dumps(conversation_history).
CaptureWithQuery(h) == Serialize(h)

\* chat_history_json = json.dumps(conversation_history[:-1])
CaptureHistory(h) == Serialize(AllButLast(h))

NoJson == <<>>
NoText == <<>>

----------------------------------------------------------------------------
(* Moderation gate *)

\* Category scores of the external classifier, in hundredths, in the
\* classifier's category order.
ClassifierScores(m) ==
    IF m = Bad
    THEN <<[category |-> "harassment", score |-> 80],
           [category |-> "hate", score |-> 90]>>
    ELSE <<[category |-> "harassment", score |-> 1],
           [category |-> "hate", score |-> 2]>>

\* The default thresholds, in hundredths.
DefaultThreshold(category) ==
    CASE category = "harassment" -> 50
      [] category = "harassment/threatening" -> 10
      [] category = "hate" -> 50
      [] category = "hate/threatening" -> 10
      [] category = "self-harm" -> 20
      [] category = "self-harm/instructions" -> 50
      [] category = "self-harm/intent" -> 70
      [] category = "sexual" -> 50
      [] category = "sexual/minors" -> 20
      [] category = "violence" -> 70
      [] category = "violence/graphic" -> 80
      [] OTHER -> 100

\* The rows of the Bot table as the moderation gate reads them: the
\* thresholds a bot overrides, in hundredths.
ModerationOverrides(b) ==
    CASE b.name = "lenient" -> [c \in {"harassment"} |-> 90]
      [] b.name = "strict" -> [c \in {"hate", "illicit"} |-> 10]
      [] OTHER -> [c \in {} |-> 100]

\* bot.get_moderation_threshold(category): the bot's override when it has
\* one, else the default of the category.
GetModerationThreshold(b, category) ==
    IF category \in DOMAIN ModerationOverrides(b)
    THEN ModerationOverrides(b)[category]
    ELSE DefaultThreshold(category)

\* moderate_message called with bot=None
NoBot == [name |-> "None"]

\* The threshold a score is compared against.
Threshold(b, category) ==
    IF b = NoBot THEN DefaultThreshold(category)
    ELSE GetModerationThreshold(b, category)

\* A category the classifier gives no score for (None).
NoScore == -1

\* Variant: a score equal to its threshold blocks.
ExceedsOrEquals(score, threshold) == score >= threshold

\* score > threshold
Exceeds(score, threshold) == score > threshold

\* Variant: the category with the highest score over its threshold.
RECURSIVE HighestOverThreshold(_, _)
HighestOverThreshold(scores, b) ==
    IF Len(scores) = 0 THEN ""
    ELSE LET rest == HighestOverThreshold(Tail(scores), b)
             over == /\ scores[1].score # NoScore
                     /\ Exceeds(scores[1].score,
                                Threshold(b, scores[1].category))
             restScore == IF rest = "" THEN NoScore
                          ELSE (CHOOSE e \in {scores[i] : i \in 1..Len(scores)} :
                                    e.category = rest).score
         IN IF over /\ scores[1].score >= restScore
            THEN scores[1].category ELSE rest

\* The first category, in the classifier's order, whose score exceeds its
\* threshold, "" when none does; a category without score is skipped.
RECURSIVE FirstOverThreshold(_, _)
FirstOverThreshold(scores, b) ==
    IF Len(scores) = 0 THEN ""
    ELSE IF /\ scores[1].score # NoScore
            /\ Exceeds(scores[1].score, Threshold(b, scores[1].category))
         THEN scores[1].category
         ELSE FirstOverThreshold(Tail(scores), b)

\* Variant: the global toggle is not consulted.
AlwaysEnabled(settings) == TRUE

\* is_moderation_enabled: the enabled column of the first ModerationSettings
\* row, TRUE when there is no row.
is_moderation_enabled(settings) == settings # "off"

\* The ModerationSettings table has no row while conversations run.
moderate_message(m, b) ==
    IF ~is_moderation_enabled("absent") THEN ""
    ELSE FirstOverThreshold(ClassifierScores(m), b)

\* Variant: the warning does not name the category.
WarningTextGeneric(category) == <<"blocked", "by", "moderation">>

\* warning_text of a blocked turn
WarningText(category) == <<"blocked", "by", "moderation", "due", "to", category>>

\* the text returned for a follow-up request sent as a regular message
RefusalText == <<"cannot", "process", "followup", "requests">>

----------------------------------------------------------------------------
(* State helpers *)

Utterance(speaker, text, json, sent) ==
    [speaker_id |-> speaker, text |-> text, chat_history_used |-> json,
     sent |-> sent]

\* `sent` is a history field: what the model was handed for this row.
NoCall == [called |-> FALSE, history |-> <<>>]
Called(h) == [called |-> TRUE, history |-> h]

NoEntry == [present |-> FALSE, value |-> <<>>]
\* Variant: the write to the cache is lost.
CacheEntryLost(h) == [present |-> FALSE, value |-> <<>>]

CacheEntry(h) == [present |-> TRUE, value |-> h]

\* cache.get(cache_key, [])
CacheGet(c) == IF cache[c].present THEN cache[c].value ELSE <<>>

\* Variant: a flag that was set is not seen.
FlagNeverSeen(ttl) == FALSE

\* cache.get of a flag: set while its time to live has not run out
FlagSet(ttl) == ttl > 0

NoFu == [conv |-> "none", bot |-> "none", n |-> 0]
NoAge == -1

\* Ages beyond every bot's idle threshold need not be told apart.
AgeCap == 3 * CooldownTimeout

\* No service function is being called.
NoCallInProgress == [pc |-> "idle"]

\* The providers and model ids of the Model table; "Cohere" stands for a
\* provider without an engine.
Providers == {"OpenAI", "Anthropic", "Bedrock", "Cohere"}
ModelIds == {"m1", "m2"}
EngineKeys == Providers \X ModelIds

\* engine_instances = {}
NoEngines == [k \in {} |-> 0]

IdleTask ==
    [pc |-> "idle", kind |-> "none", conv |-> "none", bot |-> "none",
     msg |-> <<>>, hist |-> <<>>, loaded |-> <<>>, window |-> <<>>,
     handed |-> <<>>, query |-> NoText, json |-> NoJson,
     sent |-> <<>>, reply |-> NoText, blocked |-> "", calls |-> 0,
     out |-> "none", ret |-> NoText, reason |-> "", after |-> NoFu,
     had_conv |-> FALSE, user_row |-> 0]

NewTask(kind, b, c, m, pc) ==
    [IdleTask EXCEPT !.pc = pc, !.kind = kind, !.bot = b, !.conv = c,
                     !.msg = m, !.had_conv = c \in conversations]

\* A finished turn: how it ended (returned or raised), the reply text
\* (NoText for none) and the reason given with no reply.
Finished(task, out, ret, reason) ==
    [task EXCEPT !.pc = "done", !.hist = <<>>, !.loaded = <<>>,
                 !.window = <<>>, !.handed = <<>>, !.query = NoText,
                 !.json = NoJson, !.sent = <<>>, !.reply = NoText,
                 !.user_row = 0,
                 !.out = out, !.ret = ret, !.reason = reason]

\* Variant: the exception is swallowed and the turn returns nothing.
FailedSilently(task, why) == Finished(task, "returned", NoText, why)

\* An exception inside a turn: run_chat_round lets it propagate,
\* generate_followup_message returns (None, str(e)).
Failed(task, why) ==
    IF task.kind = "chat" THEN Finished(task, "raised", NoText, why)
    ELSE Finished(task, "returned", NoText, why)

Free(t) == tasks[t].pc \in {"idle", "done"}

RECURSIVE RowsIn(_)
RowsIn(cs) ==
    IF cs = {} THEN 0
    ELSE LET c == CHOOSE x \in cs : TRUE
         IN Len(utter[c]) + RowsIn(cs \ {c})

\* The store has room for n more rows (bound of the model).
RoomFor(n) == RowsIn(Convs) + n <= MaxRows

\* Variant: the row is lost.
SaveChatDropped(c, u) == utter

\* save_chat_to_db: a row is created when the conversation exists; the
\* missing conversation is logged and swallowed.
SaveChatToDb(c, u) ==
    IF c \in conversations THEN [utter EXCEPT ![c] = Append(@, u)] ELSE utter

\* History: the position of the user row a turn has just created, 0 when
\* the save was swallowed.
RowCreated(c) == IF c \in conversations THEN Len(utter[c]) + 1 ELSE 0

\* get_last_user_message_time after a user row is created now
UserRowSaved(c) ==
    IF c \in conversations THEN [userAge EXCEPT ![c] = 0] ELSE userAge

\* Variant: a user is idle from the threshold on.
IdleAtThreshold(c, minutes) ==
    /\ userAge[c] # NoAge
    /\ userAge[c] >= minutes * SecondsPerMinute

\* is_user_idle: the last user row is older than idle_time_minutes.
IsUserIdle(c, minutes) ==
    /\ userAge[c] # NoAge
    /\ userAge[c] > minutes * SecondsPerMinute

\* Variant: neither flag is consulted.
NeverRefuse(b, onceSet, coolSet) == ""

\* The reason generate_followup_message refuses with once the user is
\* known to be idle, "" when the follow-up is granted.
FollowupRefusal(b, onceSet, coolSet) ==
    IF ~b.recurring_followup /\ onceSet THEN "already sent"
    ELSE IF coolSet THEN "recently sent"
    ELSE ""

\* Variant: no turn saves its message.
PersistsNoMessage(kind, m) == FALSE

\* Variant: the follow-up path saves its instruction like a user message.
PersistsAnyMessage(kind, m) == TRUE

\* Only a regular turn saves its message as a user row.
PersistsUserMessage(kind, m) == kind = "chat" /\ ~StartsWithMarker(m)

----------------------------------------------------------------------------
(* Initial state *)

Init ==
    /\ conversations = {}
    /\ utter = [c \in Convs |-> <<>>]
    /\ userAge = [c \in Convs |-> NoAge]
    /\ cache = [c \in Convs |-> NoEntry]
    /\ coolTtl = [c \in Convs |-> 0]
    /\ onceTtl = [c \in Convs |-> 0]
    /\ tasks = [t \in TaskIds |-> IdleTask]
    /\ lastFu = NoFu
    /\ fuInPeriod = [c \in Convs |-> 0]
    /\ call = NoCallInProgress
    /\ engine_instances = NoEngines
    /\ initialised = [k \in EngineKeys |-> 0]
    /\ bot_rows = [b \in KnownBots |-> FollowupSettings(Bot(b))]

----------------------------------------------------------------------------
(* Regular turn: run_chat_round *)

\* Entry of a regular turn up to the moderation verdict.
StartChat(t, b, c, m) ==
    /\ Free(t)
    /\ RoomFor(2)
    /\ UNCHANGED fuInPeriod
    /\ lastFu' = NoFu
    /\ tasks' = [tasks EXCEPT ![t] =
          IF StartsWithMarker(m)
          THEN Finished(NewTask("chat", b, c, m, "done"), "returned",
                        RefusalText, "")
          ELSE IF b \notin KnownBots
          THEN Finished(NewTask("chat", b, c, m, "done"), "raised", NoText,
                        "Bot.DoesNotExist")
          ELSE IF moderate_message(m, Bot(b)) # ""
          THEN [NewTask("chat", b, c, m, "blk_user")
                    EXCEPT !.blocked = moderate_message(m, Bot(b))]
          ELSE NewTask("chat", b, c, m, "load")]
    /\ UNCHANGED <<userAge, conversations, utter, cache, coolTtl,
                   onceTtl>>

    /\ UNCHANGED <<call, engines, bot_rows>>
\* Blocked turn: the user's message is saved.
BlockedSaveUser(t) ==
    /\ tasks[t].pc = "blk_user"
    /\ utter' = SaveChatToDb(tasks[t].conv,
                    Utterance("user", tasks[t].msg, NoJson, NoCall))
    /\ tasks' = [tasks EXCEPT ![t].pc = "blk_asst",
                              ![t].user_row = RowCreated(tasks[t].conv)]
    /\ fuInPeriod' = [fuInPeriod EXCEPT ![tasks[t].conv] = 0]
    /\ lastFu' = NoFu
    /\ userAge' = UserRowSaved(tasks[t].conv)
    /\ UNCHANGED <<conversations, cache, coolTtl, onceTtl>>

    /\ UNCHANGED <<call, engines, bot_rows>>
\* Blocked turn: the warning is saved and returned.
BlockedSaveWarning(t) ==
    /\ tasks[t].pc = "blk_asst"
    /\ utter' = SaveChatToDb(tasks[t].conv,
                    Utterance("assistant", WarningText(tasks[t].blocked),
                              NoJson, NoCall))
    /\ tasks' = [tasks EXCEPT ![t] =
                    Finished(@, "returned", WarningText(@.blocked), "")]
    /\ UNCHANGED fuInPeriod
    /\ lastFu' = NoFu
    /\ UNCHANGED <<userAge, conversations, cache, coolTtl,
                   onceTtl>>

    /\ UNCHANGED <<call, engines, bot_rows>>
----------------------------------------------------------------------------
(* Steps shared by run_chat_round and run_followup_chat_round *)

\* History from the cache or, when that is empty, from the store (which
\* then fills the cache); truncation; the new message appended; the
\* conversation fetched; the model called.
LoadAndInvoke(t) ==
    LET task == tasks[t]
        c == task.conv
        L == Bot(task.bot).max_transcript_length
        cached == CacheGet(c)
        loaded == IF cached # <<>> THEN cached
                  ELSE IF c \in conversations
                       THEN HistoryFromUtterances(utter[c])
                       ELSE <<>>
        hist == BuildHistory(loaded, L, task.msg)
        formatted == FormatForKani(hist)
    IN
    /\ task.pc = "load"
    /\ cache' = IF cached = <<>> /\ c \in conversations
                THEN [cache EXCEPT ![c] = CacheEntry(loaded)]
                ELSE cache
    /\ IF c \notin conversations
       THEN tasks' = [tasks EXCEPT ![t] =
                         Failed(task, "Conversation.DoesNotExist")]
       ELSE tasks' = [tasks EXCEPT ![t] =
                            [task EXCEPT !.pc = "model", !.hist = hist,
                                         !.loaded = loaded,
                                         !.window = Truncate(loaded, L),
                                         !.handed = formatted,
                                         !.query =
                                            IF Len(formatted) = 0 THEN NoText
                                            ELSE formatted[Len(formatted)]
                                                    .content,
                                         !.sent = AllButLast(formatted),
                                         !.calls = @ + 1]]
    /\ UNCHANGED fuInPeriod
    /\ lastFu' = IF task.kind = "followup" THEN lastFu ELSE NoFu
    /\ UNCHANGED <<userAge, conversations, utter, coolTtl,
                   onceTtl>>

    /\ UNCHANGED <<call, engines, bot_rows>>
\* The model answers: the history used is captured, the reply appended and
\* the list written to the cache.
ModelReturn(t, r) ==
    LET task == tasks[t]
        full == Append(task.hist, Entry("assistant", r))
    IN
    /\ task.pc = "model"
    /\ cache' = [cache EXCEPT ![task.conv] = CacheEntry(full)]
    /\ tasks' = [tasks EXCEPT ![t] =
          [task EXCEPT !.pc = IF PersistsUserMessage(task.kind, task.msg)
                              THEN "save_user" ELSE "save_asst",
                       !.json = CaptureHistory(task.hist),
                       !.hist = full,
                       !.reply = r]]
    /\ UNCHANGED fuInPeriod
    /\ lastFu' = IF task.kind = "followup" THEN lastFu ELSE NoFu
    /\ UNCHANGED <<userAge, conversations, utter, coolTtl,
                   onceTtl>>

    /\ UNCHANGED <<call, engines, bot_rows>>
\* Variant: a failed model call clears the follow-up flags again.
ModelFailRollsBack(t) ==
    /\ tasks[t].pc = "model"
    /\ tasks' = [tasks EXCEPT ![t] = Failed(@, "completion failed")]
    /\ coolTtl' = [coolTtl EXCEPT ![tasks[t].conv] = 0]
    /\ onceTtl' = [onceTtl EXCEPT ![tasks[t].conv] = 0]
    /\ UNCHANGED fuInPeriod
    /\ lastFu' = NoFu
    /\ UNCHANGED <<userAge, conversations, utter, cache>>
    /\ UNCHANGED <<call, engines, bot_rows>>

\* The model call fails.
ModelFail(t) ==
    /\ tasks[t].pc = "model"
    /\ tasks' = [tasks EXCEPT ![t] = Failed(@, "completion failed")]
    /\ UNCHANGED fuInPeriod
    /\ lastFu' = NoFu
    /\ UNCHANGED <<userAge, conversations, utter, cache, coolTtl,
                   onceTtl>>

    /\ UNCHANGED <<call, engines, bot_rows>>
ChatLoadAndInvoke(t) == tasks[t].kind = "chat" /\ LoadAndInvoke(t)
FollowupLoadAndInvoke(t) == tasks[t].kind = "followup" /\ LoadAndInvoke(t)
ChatModelReturn(t, r) == tasks[t].kind = "chat" /\ ModelReturn(t, r)
FollowupModelReturn(t, r) == tasks[t].kind = "followup" /\ ModelReturn(t, r)
ChatModelFail(t) == tasks[t].kind = "chat" /\ ModelFail(t)
FollowupModelFail(t) == tasks[t].kind = "followup" /\ ModelFail(t)

\* The user's message is saved.
SaveUser(t) ==
    /\ tasks[t].pc = "save_user"
    /\ utter' = SaveChatToDb(tasks[t].conv,
                    Utterance("user", tasks[t].msg, NoJson, NoCall))
    /\ tasks' = [tasks EXCEPT ![t].pc = "save_asst",
                              ![t].user_row = RowCreated(tasks[t].conv)]
    /\ fuInPeriod' = [fuInPeriod EXCEPT ![tasks[t].conv] = 0]
    /\ lastFu' = NoFu
    /\ userAge' = UserRowSaved(tasks[t].conv)
    /\ UNCHANGED <<conversations, cache, coolTtl, onceTtl>>

    /\ UNCHANGED <<call, engines, bot_rows>>
\* The reply is saved with the history used, and returned.
SaveAssistant(t) ==
    LET task == tasks[t] IN
    /\ task.pc = "save_asst"
    /\ utter' = SaveChatToDb(task.conv,
                    Utterance("assistant", task.reply, task.json,
                              Called(task.sent)))
    /\ tasks' = [tasks EXCEPT ![t] = Finished(task, "returned", task.reply, "")]
    /\ fuInPeriod' = IF /\ task.kind = "followup"
                         /\ ~Bot(task.bot).recurring_followup
                         /\ task.conv \in conversations
                      THEN [fuInPeriod EXCEPT ![task.conv] = @ + 1]
                      ELSE fuInPeriod
    /\ lastFu' = IF task.kind = "followup"
                 THEN [conv |-> task.conv, bot |-> task.bot,
                       n |-> Len(utter'[task.conv])]
                 ELSE NoFu
    /\ UNCHANGED <<userAge, conversations, cache, coolTtl,
                   onceTtl>>

    /\ UNCHANGED <<call, engines, bot_rows>>
ChatSaveAssistant(t) == tasks[t].kind = "chat" /\ SaveAssistant(t)
FollowupSaveAssistant(t) == tasks[t].kind = "followup" /\ SaveAssistant(t)

----------------------------------------------------------------------------
(* Idle follow-up: generate_followup_message *)

\* Entry of a follow-up call up to the idle check.
StartFollowup(t, b, c) ==
    LET new == [NewTask("followup", b, c, NoText, "fu_flags")
                    EXCEPT !.after = IF lastFu.conv = c /\ lastFu.bot = b
                                     THEN lastFu ELSE NoFu]
    IN
    /\ Free(t)
    /\ RoomFor(1)
    /\ tasks' = [tasks EXCEPT ![t] =
          IF b \notin KnownBots
          THEN Finished(new, "returned", NoText, "Bot not found")
          ELSE IF ~Bot(b).follow_up_on_idle
          THEN Finished(new, "returned", NoText, "not enabled")
          ELSE IF Bot(b).follow_up_instruction_prompt = <<>>
          THEN Finished(new, "returned", NoText, "no instruction prompt")
          ELSE IF ~IsUserIdle(c, Bot(b).idle_time_minutes)
          THEN Finished(new, "returned", NoText, "not idle")
          ELSE new]
    /\ UNCHANGED fuInPeriod
    /\ lastFu' = NoFu
    /\ UNCHANGED <<userAge, conversations, utter, cache, coolTtl,
                   onceTtl>>

    /\ UNCHANGED <<call, engines, bot_rows>>
\* The one-shot and cooldown flags are checked and, when the follow-up is
\* granted, set; the instruction message is built.
CheckAndSetFlags(t) ==
    LET task == tasks[t]
        b == Bot(task.bot)
        c == task.conv
        refusal == FollowupRefusal(b, FlagSet(onceTtl[c]),
                                   FlagSet(coolTtl[c]))
    IN
    /\ task.pc = "fu_flags"
    /\ IF refusal # ""
       THEN /\ tasks' = [tasks EXCEPT ![t] =
                            Finished(task, "returned", NoText, refusal)]
            /\ UNCHANGED <<coolTtl, onceTtl>>
       ELSE /\ coolTtl' = [coolTtl EXCEPT ![c] = CooldownTimeout]
            /\ onceTtl' = IF ~b.recurring_followup
                            THEN [onceTtl EXCEPT ![c] = OnceTimeout]
                            ELSE onceTtl
            /\ tasks' = [tasks EXCEPT ![t] =
                  [task EXCEPT !.pc = "load",
                               !.msg = <<Marker>> \o
                                       b.follow_up_instruction_prompt]]
    /\ UNCHANGED fuInPeriod
    /\ lastFu' = NoFu
    /\ UNCHANGED <<userAge, conversations, utter, cache>>

    /\ UNCHANGED <<call, engines, bot_rows>>
\* Variant: the reset deletes the cooldown flag as well.
DeleteBothFlags(c) ==
    /\ onceTtl' = [onceTtl EXCEPT ![c] = 0]
    /\ coolTtl' = [coolTtl EXCEPT ![c] = 0]
    /\ fuInPeriod' = [fuInPeriod EXCEPT ![c] = 0]
    /\ lastFu' = NoFu
    /\ UNCHANGED <<userAge, conversations, utter, cache, tasks>>

\* cache.delete(followup_sent_once_<id>)
DeleteOnceFlag(c) ==
    /\ onceTtl' = [onceTtl EXCEPT ![c] = 0]
    /\ fuInPeriod' = [fuInPeriod EXCEPT ![c] = 0]
    /\ lastFu' = NoFu
    /\ UNCHANGED <<userAge, conversations, utter, cache, coolTtl,
                   tasks>>

\* FollowupAPIView with reset_flag: the one-shot flag is deleted.
ResetFlag(c) ==
    /\ DeleteOnceFlag(c)
    /\ UNCHANGED <<call, engines, bot_rows>>

----------------------------------------------------------------------------
(* Conversation initialisation: InitializeConversationAPIView.post *)

\* What the handler does to rows and cache.
InitializeConversation(b, c) ==
    /\ RoomFor(1)
    /\ UNCHANGED fuInPeriod
    /\ lastFu' = NoFu
    /\ IF b \notin KnownBots
       THEN UNCHANGED <<conversations, utter, cache>>
       ELSE IF c \in conversations
       THEN /\ cache' = [cache EXCEPT ![c] =
                            CacheEntry(HistoryFromUtterances(utter[c]))]
            /\ UNCHANGED <<conversations, utter>>
       ELSE /\ conversations' = conversations \cup {c}
            /\ utter' = IF Bot(b).initial_utterance # <<>>
                        THEN [utter EXCEPT ![c] =
                                Append(@, Utterance("assistant",
                                    Bot(b).initial_utterance, NoJson,
                                    NoCall))]
                        ELSE utter
            /\ UNCHANGED cache
    /\ UNCHANGED <<userAge, coolTtl, onceTtl, tasks>>

\* An initialise request among the turns of the conversations.
Initialize(b, c) ==
    /\ InitializeConversation(b, c)
    /\ UNCHANGED <<call, engines, bot_rows>>

----------------------------------------------------------------------------
(* Environment *)

TickSteps == {CooldownTimeout, OnceTimeout - CooldownTimeout}

\* Time passes: rows age and the flags' times to live run down.  A one-shot
\* flag sees at most MaxDrift short steps before a long one (bound of the
\* model).
Tick(d) ==
    /\ d = CooldownTimeout =>
          \A c \in Convs :
             \/ onceTtl[c] <= CooldownTimeout
             \/ OnceTimeout - onceTtl[c] + d <= MaxDrift * CooldownTimeout
    /\ userAge' = [c \in Convs |->
                      IF userAge[c] = NoAge THEN NoAge
                      ELSE Min(userAge[c] + d, AgeCap)]
    /\ coolTtl' = [c \in Convs |-> Max(coolTtl[c] - d, 0)]
    /\ onceTtl' = [c \in Convs |-> Max(onceTtl[c] - d, 0)]
    /\ UNCHANGED fuInPeriod
    /\ lastFu' = NoFu
    /\ UNCHANGED <<conversations, utter, cache, tasks>>

    /\ UNCHANGED <<call, engines, bot_rows>>
\* The cache entry of a conversation expires or is evicted.
CacheExpire(c) ==
    /\ cache[c].present
    /\ cache' = [cache EXCEPT ![c] = NoEntry]
    /\ UNCHANGED fuInPeriod
    /\ lastFu' = NoFu
    /\ UNCHANGED <<userAge, conversations, utter, coolTtl,
                   onceTtl, tasks>>

    /\ UNCHANGED <<call, engines, bot_rows>>
----------------------------------------------------------------------------
(* Specification: requests are served one at a time *)

AllFree == \A t \in DOMAIN tasks : Free(t)

Next ==
    \/ \E t \in TaskIds, b \in BotNames, c \in Convs, m \in UserMessages :
          StartChat(t, b, c, m)
    \/ \E t \in TaskIds : BlockedSaveUser(t)
    \/ \E t \in TaskIds : BlockedSaveWarning(t)
    \/ \E t \in TaskIds : ChatLoadAndInvoke(t)
    \/ \E t \in TaskIds, r \in Replies : ChatModelReturn(t, r)
    \/ \E t \in TaskIds : ChatModelFail(t)
    \/ \E t \in TaskIds : SaveUser(t)
    \/ \E t \in TaskIds : ChatSaveAssistant(t)
    \/ \E t \in TaskIds : FollowupLoadAndInvoke(t)
    \/ \E t \in TaskIds, r \in Replies : FollowupModelReturn(t, r)
    \/ \E t \in TaskIds : FollowupModelFail(t)
    \/ \E t \in TaskIds : FollowupSaveAssistant(t)
    \/ \E t \in TaskIds, b \in BotNames, c \in Convs : StartFollowup(t, b, c)
    \/ \E t \in TaskIds : CheckAndSetFlags(t)
    \/ \E c \in Convs : AllFree /\ ResetFlag(c)
    \/ \E b \in BotNames, c \in Convs : AllFree /\ Initialize(b, c)
    \/ \E d \in TickSteps : AllFree /\ Tick(d)
    \/ \E c \in Convs : AllFree /\ CacheExpire(c)

Spec == Init /\ [][Next]_vars

----------------------------------------------------------------------------
(* Properties *)

BeginsWithMarker(text) == Len(text) > 0 /\ Head(text) = Marker

Limit(task) == Bot(task.bot).max_transcript_length

AssistantRows(c) ==
    {i \in 1..Len(utter[c]) : utter[c][i].speaker_id = "assistant"}

\* C3 as stated: every assistant row stores a history that deserializes to
\* the window the model was handed for it.
C3_Original ==
    \A c \in Convs : \A i \in AssistantRows(c) :
        /\ utter[c][i].chat_history_used # NoJson
        /\ Deserialize(utter[c][i].chat_history_used) = utter[c][i].sent.history

\* C3 amended: every assistant row produced by a model call stores a history
\* that deserializes to the window the model was handed without the new
\* message; warnings and initial utterances store no history.
C3_Provenance ==
    \A c \in Convs : \A i \in AssistantRows(c) :
        IF utter[c][i].sent.called
        THEN /\ utter[c][i].chat_history_used # NoJson
             /\ Deserialize(utter[c][i].chat_history_used)
                    = utter[c][i].sent.history
        ELSE utter[c][i].chat_history_used = NoJson

\* A reply stored with a window of two entries.
C3_Witness ==
    \E c \in Convs : \E i \in AssistantRows(c) :
        /\ utter[c][i].sent.called
        /\ Len(utter[c][i].sent.history) = 2

\* C4: once a regular turn has its reply, the cache entry is the list the
\* turn loaded, before truncation, with the user message and the reply
\* appended.
C4_CacheKeepsFullHistory ==
    \A t \in TaskIds :
        (tasks[t].kind = "chat" /\ tasks[t].pc \in {"save_user", "save_asst"})
        => cache[tasks[t].conv] =
              CacheEntry(tasks[t].loaded \o
                         <<Entry("user", tasks[t].msg),
                           Entry("assistant", tasks[t].reply)>>)

\* C5: between requests a cache entry, when present, is the {role, content}
\* projection of the conversation's rows.
C5_CacheMirrorsStore ==
    AllFree =>
        \A c \in Convs :
            cache[c].present =>
                cache[c].value = HistoryFromUtterances(utter[c])

\* C6: a blocked regular turn on an existing conversation saves the user's
\* message and then a warning that names the category, never calls the
\* model and returns the warning.
C6_BlockedTurn ==
    \A t \in TaskIds :
        LET task == tasks[t]
            rows == utter[task.conv]
            n == Len(rows)
        IN (task.kind = "chat" /\ task.blocked # "") =>
              /\ task.calls = 0
              /\ task.pc \in {"blk_user", "blk_asst", "done"}
              /\ (task.pc = "done" /\ task.had_conv) =>
                    /\ task.out = "returned"
                    /\ \E k \in 1..Len(task.ret) : task.ret[k] = task.blocked
                    /\ n >= 2
                    /\ rows[n - 1].speaker_id = "user"
                    /\ rows[n - 1].text = task.msg
                    /\ rows[n].speaker_id = "assistant"
                    /\ rows[n].text = task.ret

\* A blocked turn has returned on an existing conversation.
C6_Witness ==
    \E t \in TaskIds :
        /\ tasks[t].pc = "done"
        /\ tasks[t].kind = "chat"
        /\ tasks[t].blocked = "harassment"
        /\ tasks[t].had_conv

\* C7 as stated: a regular turn with a marker-prefixed text ends in an error.
C7_Original ==
    \A t \in TaskIds :
        (tasks[t].kind = "chat" /\ BeginsWithMarker(tasks[t].msg)
            /\ tasks[t].pc = "done")
        => tasks[t].out = "raised"

\* C7 amended: a regular turn with a marker-prefixed text ends at once by
\* returning the fixed refusal text (no error), for every bot name, with no
\* model call and no change to rows, cache or flags.
C7_ForgedRefused ==
    [][\A t \in TaskIds :
          (tasks'[t] # tasks[t] /\ tasks'[t].kind = "chat"
              /\ BeginsWithMarker(tasks'[t].msg))
          => /\ tasks'[t].pc = "done"
             /\ tasks'[t].out = "returned"
             /\ tasks'[t].ret = RefusalText
             /\ tasks'[t].calls = 0
             /\ UNCHANGED <<conversations, utter, userAge, cache, coolTtl,
                            onceTtl>>]_vars

\* A marker-prefixed regular turn has been refused.
C7_Witness ==
    \E t \in TaskIds :
        /\ tasks[t].pc = "done"
        /\ tasks[t].kind = "chat"
        /\ BeginsWithMarker(tasks[t].msg)
        /\ tasks[t].ret = RefusalText

\* C8: no row of either role has a text that begins with the marker.
C8_NoLeak ==
    \A c \in Convs : \A i \in 1..Len(utter[c]) :
        ~BeginsWithMarker(utter[c][i].text)

\* A follow-up turn has just saved its reply.
C8_Witness ==
    /\ lastFu.conv \in Convs
    /\ lastFu.n = Len(utter[lastFu.conv])
    /\ utter[lastFu.conv][lastFu.n].sent.called

\* C9: for a non-recurring bot, the flag check of a follow-up call grants
\* when no flag is set; a granted call whose model answers returns the reply;
\* a call that comes right after a call that replied is refused as already
\* sent or recently sent and adds no row.
C9_FollowupIdempotence ==
    [][\A t \in TaskIds :
          LET task == tasks[t]
              c == task.conv
          IN (task.kind = "followup" /\ tasks'[t] # task
                 /\ ~Bot(task.bot).recurring_followup)
             => /\ (task.pc = "fu_flags" /\ onceTtl[c] = 0 /\ coolTtl[c] = 0)
                   => tasks'[t].pc = "load"
                /\ task.pc = "save_asst"
                   => /\ tasks'[t].pc = "done"
                      /\ tasks'[t].ret = task.reply
                      /\ task.reply \in Replies
                /\ (task.pc = "fu_flags" /\ task.after.conv = c)
                   => /\ tasks'[t].pc = "done"
                      /\ tasks'[t].ret = NoText
                      /\ tasks'[t].reason \in {"already sent", "recently sent"}
                      /\ utter' = utter
                      /\ Len(utter[c]) = task.after.n]_vars

\* The second of two immediate follow-up calls has been refused.
C9_Witness ==
    \E t \in TaskIds :
        /\ tasks[t].pc = "done"
        /\ tasks[t].kind = "followup"
        /\ tasks[t].after.conv = tasks[t].conv
        /\ ~Bot(tasks[t].bot).recurring_followup
        /\ tasks[t].reason = "already sent"
        /\ Len(utter[tasks[t].conv]) = tasks[t].after.n

\* C10: a conversation gets at most one follow-up reply of a non-recurring
\* bot between two user messages or resets.
C10_OncePerIdlePeriod ==
    \A c \in Convs : fuInPeriod[c] <= 1

\* C11: once a regular turn has recorded the user's message, got its reply
\* and returned, the conversation's one-shot flag is clear.
C11_UserMessageClearsFlag ==
    \A t \in TaskIds :
        (/\ tasks[t].kind = "chat"
         /\ tasks[t].pc = "done"
         /\ tasks[t].out = "returned"
         /\ tasks[t].had_conv
         /\ tasks[t].blocked = ""
         /\ ~BeginsWithMarker(tasks[t].msg))
        => ~FlagSet(onceTtl[tasks[t].conv])

----------------------------------------------------------------------------
(* The moderation gate on its own: moderate_message(message, bot) *)

state == <<conversations, utter, userAge, cache, coolTtl, onceTtl, tasks,
           lastFu, fuInPeriod>>

Categories == {"harassment", "hate", "illicit"}
Scores == {NoScore, 10, 50, 80, 90, 100}

\* What the classifier may answer: two categories in either order.
ScoreLists ==
    {<<[category |-> c1, score |-> s1], [category |-> c2, score |-> s2]>> :
        <<c1, c2, s1, s2>> \in
            {q \in Categories \X Categories \X Scores \X Scores : q[1] # q[2]}}

\* moderate_message up to the global toggle: disabled returns "" at once.
BeginModerate(settings, b, scores) ==
    /\ call.pc = "idle"
    /\ call' = [pc |-> IF is_moderation_enabled(settings)
                       THEN "classify" ELSE "done",
                fn |-> "moderate_message", settings |-> settings, bot |-> b,
                scores |-> scores, calls |-> 0, result |-> ""]
    /\ UNCHANGED <<state, engines, bot_rows>>

\* The classifier is called and its scores are compared in order.
Classify ==
    /\ call.pc = "classify"
    /\ call' = [call EXCEPT !.pc = "done", !.calls = @ + 1,
                            !.result = FirstOverThreshold(call.scores,
                                                          call.bot)]
    /\ UNCHANGED <<state, engines, bot_rows>>

\* The caller has the result; the next call can begin.
ModerateReturn ==
    /\ call.pc = "done"
    /\ call.fn = "moderate_message"
    /\ call' = NoCallInProgress
    /\ UNCHANGED <<state, engines, bot_rows>>

ModerationNext ==
    \/ \E settings \in {"absent", "on", "off"},
          b \in {[name |-> "plain"], [name |-> "lenient"],
                 [name |-> "strict"], NoBot},
          scores \in ScoreLists : BeginModerate(settings, b, scores)
    \/ Classify
    \/ ModerateReturn

ModerationSpec == Init /\ [][ModerationNext]_vars

ModerateDone == call.pc = "done" /\ call.fn = "moderate_message"

\* C12: with the global toggle off, moderate_message returns "" without
\* calling the classifier, for every message and bot; with it on (or with no
\* settings row) the classifier is called exactly once.
C12_ShortCircuit ==
    ModerateDone =>
        IF call.settings = "off"
        THEN call.calls = 0 /\ call.result = ""
        ELSE call.calls = 1

\* The toggle is off and the scores would have blocked the message.
C12_Witness ==
    /\ ModerateDone
    /\ call.settings = "off"
    /\ call.bot = [name |-> "plain"]
    /\ call.scores = <<[category |-> "harassment", score |-> 80],
                       [category |-> "hate", score |-> 90]>>
    /\ call.result = ""

\* The entry at index i of the answered scores is over its threshold.
IsOver(i) ==
    /\ call.scores[i].score # NoScore
    /\ call.scores[i].score > Threshold(call.bot, call.scores[i].category)

\* C13: with the toggle on, the result is the category of the first entry, in
\* the classifier's order, whose score exceeds its threshold, whatever the
\* later scores are, and "" exactly when no entry exceeds its threshold;
\* harassment 0.8 before hate 0.9 under the default thresholds gives
\* harassment.
C13_FirstOverThresholdWins ==
    (ModerateDone /\ call.settings # "off") =>
        /\ call.result = "" <=> \A i \in 1..Len(call.scores) : ~IsOver(i)
        /\ call.result # "" =>
              \E i \in 1..Len(call.scores) :
                  /\ call.scores[i].category = call.result
                  /\ IsOver(i)
                  /\ \A j \in 1..(i - 1) : ~IsOver(j)
        /\ (/\ call.bot \in {[name |-> "plain"], NoBot}
            /\ call.scores = <<[category |-> "harassment", score |-> 80],
                               [category |-> "hate", score |-> 90]>>)
           => call.result = "harassment"

\* Two categories are over their thresholds and the later one scores higher.
C13_Witness ==
    /\ ModerateDone
    /\ call.settings = "on"
    /\ call.bot = [name |-> "plain"]
    /\ call.scores = <<[category |-> "harassment", score |-> 80],
                       [category |-> "hate", score |-> 90]>>
    /\ call.result = "harassment"

\* The categories with a documented default threshold.
DocumentedCategories ==
    {"harassment", "harassment/threatening", "hate", "hate/threatening",
     "self-harm", "self-harm/instructions", "self-harm/intent", "sexual",
     "sexual/minors", "violence", "violence/graphic"}

\* C14: a category is returned only for a score that is present and strictly
\* above the bot's override when the bot has one, else the documented
\* default, else 1.0; the first entry is returned whenever its score is; a
\* category with no configured threshold is never returned.
C14_ThresholdChoice ==
    (ModerateDone /\ call.settings # "off") =>
        \A i \in 1..Len(call.scores) :
            LET e == call.scores[i]
                overridden == /\ call.bot # NoBot
                              /\ e.category \in DOMAIN ModerationOverrides(call.bot)
                T == IF overridden
                     THEN ModerationOverrides(call.bot)[e.category]
                     ELSE IF e.category \in DocumentedCategories
                          THEN DefaultThreshold(e.category)
                          ELSE 100
            IN /\ call.result = e.category => (e.score # NoScore /\ e.score > T)
               /\ (i = 1 /\ e.score # NoScore /\ e.score > T)
                     => call.result = e.category
               /\ (~overridden /\ e.category \notin DocumentedCategories)
                     => call.result # e.category

\* A score equal to the bot's override and a category without score: allowed.
C14_Witness ==
    /\ ModerateDone
    /\ call.settings = "on"
    /\ call.bot = [name |-> "lenient"]
    /\ call.scores = <<[category |-> "harassment", score |-> 90],
                       [category |-> "hate", score |-> NoScore]>>
    /\ call.result = ""

----------------------------------------------------------------------------
(* Specification: two requests served concurrently on one conversation.     *)
(* Each turn is an asynchronous task; the steps of two turns interleave at  *)
(* their suspension points.                                                 *)

RaceTasks == {1, 2}
RaceConvs == {"c1"}
RaceBots == {"brief", "once"}

RaceInit ==
    /\ conversations = {}
    /\ utter = [c \in Convs |-> <<>>]
    /\ userAge = [c \in Convs |-> NoAge]
    /\ cache = [c \in Convs |-> NoEntry]
    /\ coolTtl = [c \in Convs |-> 0]
    /\ onceTtl = [c \in Convs |-> 0]
    /\ tasks = [t \in RaceTasks |-> IdleTask]
    /\ lastFu = NoFu
    /\ fuInPeriod = [c \in Convs |-> 0]
    /\ call = NoCallInProgress
    /\ engine_instances = NoEngines
    /\ initialised = [k \in EngineKeys |-> 0]
    /\ bot_rows = [b \in KnownBots |-> FollowupSettings(Bot(b))]

RaceNext ==
    \/ \E t \in RaceTasks, b \in RaceBots, c \in RaceConvs,
          m \in {Hello, Bad} : StartChat(t, b, c, m)
    \/ \E t \in RaceTasks : BlockedSaveUser(t)
    \/ \E t \in RaceTasks : BlockedSaveWarning(t)
    \/ \E t \in RaceTasks : ChatLoadAndInvoke(t)
    \/ \E t \in RaceTasks, r \in Replies : ChatModelReturn(t, r)
    \/ \E t \in RaceTasks : ChatModelFail(t)
    \/ \E t \in RaceTasks : SaveUser(t)
    \/ \E t \in RaceTasks : ChatSaveAssistant(t)
    \/ \E t \in RaceTasks : FollowupLoadAndInvoke(t)
    \/ \E t \in RaceTasks, r \in Replies : FollowupModelReturn(t, r)
    \/ \E t \in RaceTasks : FollowupModelFail(t)
    \/ \E t \in RaceTasks : FollowupSaveAssistant(t)
    \/ \E t \in RaceTasks, b \in RaceBots, c \in RaceConvs :
          StartFollowup(t, b, c)
    \/ \E t \in RaceTasks : CheckAndSetFlags(t)
    \/ \E b \in RaceBots, c \in RaceConvs : AllFree /\ Initialize(b, c)
    \/ \E d \in TickSteps : AllFree /\ Tick(d)

RaceSpec == RaceInit /\ [][RaceNext]_vars

\* C15: under any interleaving of two turns, a regular turn that adds an
\* assistant row (reply or warning) appends it to a log that already holds
\* the user row this turn created with its message; a follow-up turn changes
\* the log only by appending one assistant row.
C15_UserBeforeAssistant ==
    [][\A t \in DOMAIN tasks :
          LET task == tasks[t]
              c == task.conv
              rows == utter[c]
          IN (tasks'[t] # task /\ task.pc \notin {"idle", "done"}) =>
                /\ (/\ task.kind = "chat"
                    /\ task.pc \in {"save_asst", "blk_asst"}
                    /\ utter' # utter)
                   => /\ task.user_row \in 1..Len(rows)
                      /\ rows[task.user_row].speaker_id = "user"
                      /\ rows[task.user_row].text = task.msg
                      /\ Len(utter'[c]) = Len(rows) + 1
                      /\ SubSeq(utter'[c], 1, Len(rows)) = rows
                      /\ utter'[c][Len(rows) + 1].speaker_id = "assistant"
                /\ (task.kind = "chat" /\ task.pc \in {"save_user", "blk_user"})
                   => tasks'[t].pc \in {"save_asst", "blk_asst"}
                /\ task.kind = "followup"
                   => \/ utter' = utter
                      \/ /\ Len(utter'[c]) = Len(rows) + 1
                         /\ SubSeq(utter'[c], 1, Len(rows)) = rows
                         /\ utter'[c][Len(rows) + 1].speaker_id = "assistant"
                         /\ \A d \in Convs \ {c} : utter'[d] = utter[d]]_vars

\* Two turns have interleaved: two user rows in a row, then a reply of the
\* turn whose user row came first.
C15_Witness ==
    \E t \in DOMAIN tasks :
        /\ tasks[t].kind = "chat"
        /\ tasks[t].pc = "done"
        /\ tasks[t].out = "returned"
        /\ Len(utter[tasks[t].conv]) >= 3
        /\ utter[tasks[t].conv][1].speaker_id = "user"
        /\ utter[tasks[t].conv][2].speaker_id = "user"
        /\ utter[tasks[t].conv][3].speaker_id = "assistant"

\* C16: a regular turn whose model call fails ends by raising, after exactly
\* one model call, and leaves rows and cache as they were; up to the model
\* call the turn creates no row and writes to the cache at most the
\* projection of the stored rows.
C16_ModelFailurePersistsNothing ==
    [][\A t \in TaskIds :
          LET task == tasks[t]
              c == task.conv
          IN (task.kind = "chat" /\ tasks'[t] # task) =>
                /\ (task.pc = "load")
                   => /\ utter' = utter
                      /\ \/ cache' = cache
                         \/ cache' = [cache EXCEPT ![c] = CacheEntry(
                                         HistoryFromUtterances(utter[c]))]
                /\ (task.pc = "model" /\ tasks'[t].reply = NoText)
                   => /\ tasks'[t].pc = "done"
                      /\ tasks'[t].out = "raised"
                      /\ tasks'[t].ret = NoText
                      /\ tasks'[t].calls = 1
                      /\ utter' = utter
                      /\ cache' = cache]_vars

\* A regular turn on a conversation with rows has failed in the model call.
C16_Witness ==
    \E t \in TaskIds :
        /\ tasks[t].kind = "chat"
        /\ tasks[t].pc = "done"
        /\ tasks[t].reason = "completion failed"
        /\ tasks[t].out = "raised"
        /\ Len(utter[tasks[t].conv]) > 0

\* C17: a regular turn addressed to an unknown bot or an unknown conversation
\* ends by raising, whether or not the message is blocked, and no step of it
\* changes rows or cache.
C17_UnknownTargetFails ==
    [][\A t \in TaskIds :
          LET new == tasks'[t]
          IN (/\ new # tasks[t]
              /\ new.kind = "chat"
              /\ ~BeginsWithMarker(new.msg)
              /\ (new.bot \notin KnownBots \/ ~new.had_conv))
             => /\ utter' = utter
                /\ cache' = cache
                /\ new.pc = "done" => new.out = "raised"]_vars

\* C18: a successful unblocked regular turn on an existing conversation
\* appends exactly two rows, the user row with the text as sent and then the
\* assistant row with the reply, so n such turns in sequence on a fresh
\* conversation leave 2n rows alternating user, assistant; and when the
\* second of two such turns ran with limit 2, the history stored with its
\* reply is exactly the first user message and the first reply.
C18_EndToEnd ==
    [][\A t \in TaskIds :
          LET task == tasks[t]
              c == task.conv
              rows == utter[c]
              n == Len(rows)
              after == utter'[c]
          IN (/\ task.kind = "chat"
              /\ tasks'[t] # task
              /\ task.had_conv
              /\ task.blocked = "") =>
                /\ task.pc \in {"load", "model"} => utter' = utter
                /\ task.pc = "save_user"
                   => /\ Len(after) = n + 1
                      /\ SubSeq(after, 1, n) = rows
                      /\ after[n + 1].speaker_id = "user"
                      /\ after[n + 1].text = task.msg
                      /\ tasks'[t].pc = "save_asst"
                /\ task.pc = "save_asst"
                   => /\ Len(after) = n + 1
                      /\ SubSeq(after, 1, n) = rows
                      /\ rows[n].speaker_id = "user"
                      /\ rows[n].text = task.msg
                      /\ after[n + 1].speaker_id = "assistant"
                      /\ after[n + 1].text = task.reply
                      /\ tasks'[t].pc = "done"
                      /\ tasks'[t].ret = task.reply
                /\ (/\ task.pc = "save_asst"
                    /\ Limit(task) = 2
                    /\ n = 3
                    /\ rows[1].speaker_id = "user"
                    /\ rows[2].speaker_id = "assistant"
                    /\ rows[2].sent.called)
                   => Deserialize(after[4].chat_history_used)
                         = <<Entry("user", rows[1].text),
                             Entry("assistant", rows[2].text)>>]_vars

\* Two successful turns on a fresh conversation, the second under limit 2.
C18_Witness ==
    \E t \in TaskIds :
        LET rows == utter[tasks[t].conv] IN
        /\ tasks[t].kind = "chat"
        /\ tasks[t].pc = "done"
        /\ tasks[t].out = "returned"
        /\ tasks[t].blocked = ""
        /\ Limit(tasks[t]) = 2
        /\ Len(rows) = 4
        /\ rows[1].speaker_id = "user"
        /\ rows[2].sent.called
        /\ rows[3].speaker_id = "user"
        /\ rows[4].sent.called
        /\ Len(rows[4].sent.history) = 2

UserRows(c) == {i \in 1..Len(utter[c]) : utter[c][i].speaker_id = "user"}

\* C19: the only step of a follow-up turn that changes the rows is the last
\* one of a successful turn, which appends one assistant row holding the
\* reply; no step of a follow-up turn adds a user row.
C19_FollowupAddsOneRow ==
    [][\A t \in TaskIds :
          LET task == tasks[t]
              c == task.conv
              rows == utter[c]
              n == Len(rows)
              after == utter'[c]
          IN (/\ task.kind = "followup"
              /\ tasks'[t] # task
              /\ task.pc \notin {"idle", "done"}) =>
                /\ \A d \in Convs :
                      {i \in 1..Len(utter'[d]) :
                          utter'[d][i].speaker_id = "user"} = UserRows(d)
                /\ task.pc # "save_asst" => utter' = utter
                /\ task.pc = "save_asst"
                   => /\ Len(after) = n + 1
                      /\ SubSeq(after, 1, n) = rows
                      /\ after[n + 1].speaker_id = "assistant"
                      /\ after[n + 1].text = task.reply
                      /\ tasks'[t].ret = task.reply
                      /\ \A d \in Convs \ {c} : utter'[d] = utter[d]]_vars

\* A follow-up turn has replied on a conversation with one user row.
C19_Witness ==
    \E t \in TaskIds :
        /\ tasks[t].kind = "followup"
        /\ tasks[t].pc = "done"
        /\ tasks[t].ret \in Replies
        /\ Cardinality(UserRows(tasks[t].conv)) = 1
        /\ Len(utter[tasks[t].conv]) >= 2

\* C20: the follow-up instruction never enters the cache, and so no entry of
\* a cached list and no entry of a stored history begins with the marker.
C20_InstructionNeverCached ==
    /\ \A c \in Convs : \A i \in 1..Len(cache[c].value) :
          ~BeginsWithMarker(cache[c].value[i].content)
    /\ \A c \in Convs : \A i \in 1..Len(utter[c]) :
          LET h == Deserialize(utter[c][i].chat_history_used)
          IN utter[c][i].chat_history_used # NoJson =>
                \A k \in 1..Len(h) : ~BeginsWithMarker(h[k].content)

----------------------------------------------------------------------------
(* Post-processing of a reply: chatbot/services/post_processing.py.         *)
(* Times are in milliseconds.                                               *)

\* The delay parameters of a bot (DefaultBotConfiguration), and the same bot
\* with humanlike_delay switched off.
DelayConfig(enabled) ==
    [humanlike_delay |-> enabled,
     reading_ms_per_word |-> 240, reading_jitter |-> {100, 300},
     reading_thinking |-> {200, 500},
     writing_ms_per_word |-> 300, writing_jitter |-> {50, 150},
     writing_thinking |-> {100, 300},
     intra_message_delay |-> {100, 300},
     min_reading_delay |-> 1000]

\* Variant: the minimum reading delay of the bot is kept.
InstantKeepingMinimum(response_segments) ==
    [reading_time |-> 0, min_reading_delay |-> DelayConfig(FALSE).min_reading_delay,
     response_segments |->
        [i \in 1..Len(response_segments) |->
            [content |-> response_segments[i], writing_delay |-> 0,
             inter_segment_delay |-> 0]]]

\* create_instant_display_response: every timing field zero.
create_instant_display_response(response_segments) ==
    [reading_time |-> 0, min_reading_delay |-> 0,
     response_segments |->
        [i \in 1..Len(response_segments) |->
            [content |-> response_segments[i], writing_delay |-> 0,
             inter_segment_delay |-> 0]]]

\* calculate_typing_delays; `draws` holds the values random.uniform gives:
\* the reading jitter and thinking time and, per segment, the writing
\* jitter, thinking time and inter-segment delay.
calculate_typing_delays(user_message, response_segments, bot_config, draws) ==
    IF ~bot_config.humanlike_delay
    THEN create_instant_display_response(response_segments)
    ELSE [reading_time |->
             Len(user_message) * bot_config.reading_ms_per_word
                + draws.reading_jitter + draws.reading_thinking,
          min_reading_delay |-> bot_config.min_reading_delay,
          response_segments |->
             [i \in 1..Len(response_segments) |->
                 [content |-> response_segments[i],
                  writing_delay |->
                     Len(response_segments[i]) * bot_config.writing_ms_per_word
                        + draws.segments[i].writing_jitter
                        + draws.segments[i].writing_thinking,
                  inter_segment_delay |->
                     draws.segments[i].inter_segment_delay]]]

\* What random.uniform may give for one segment: the ends of each range.
Draws(cfg, n) ==
    [reading_jitter : cfg.reading_jitter,
     reading_thinking : cfg.reading_thinking,
     segments : [1..n -> [writing_jitter : cfg.writing_jitter,
                          writing_thinking : cfg.writing_thinking,
                          inter_segment_delay : cfg.intra_message_delay]]]

\* One call of calculate_typing_delays, with whatever random.uniform gives.
CalculateTypingDelays(enabled, user_message, response_segments) ==
    /\ call.pc = "idle"
    /\ \E draws \in Draws(DelayConfig(enabled), Len(response_segments)) :
          call' = [pc |-> "done", fn |-> "calculate_typing_delays",
                   enabled |-> enabled, user_message |-> user_message,
                   response_segments |-> response_segments,
                   result |-> calculate_typing_delays(user_message,
                                 response_segments, DelayConfig(enabled),
                                 draws)]
    /\ UNCHANGED <<state, engines, bot_rows>>

\* The caller has the result of the call under study; the next can begin.
CallReturn ==
    /\ call.pc = "done"
    /\ call' = NoCallInProgress
    /\ UNCHANGED <<state, engines, bot_rows>>

\* C21: with humanlike delay disabled, calculate_typing_delays returns reading
\* time 0, minimum reading delay 0 and, per segment, writing delay 0 and
\* inter-segment delay 0, for every inbound message and segment list; the
\* returned segments are the input segments, same count, order and content.
C21_DelayZeroing ==
    (/\ call.pc = "done"
     /\ call.fn = "calculate_typing_delays"
     /\ ~call.enabled) =>
        LET out == call.result.response_segments IN
        /\ call.result.reading_time = 0
        /\ call.result.min_reading_delay = 0
        /\ Len(out) = Len(call.response_segments)
        /\ \A i \in 1..Len(out) :
              /\ out[i].content = call.response_segments[i]
              /\ out[i].writing_delay = 0
              /\ out[i].inter_segment_delay = 0

\* Delay disabled, a message of seven words and three segments.
C21_Witness ==
    /\ call.pc = "done"
    /\ call.fn = "calculate_typing_delays"
    /\ ~call.enabled
    /\ Len(call.user_message) = 7
    /\ Len(call.response_segments) = 3
    /\ call.response_segments[1] # call.response_segments[2]
    /\ Len(call.result.response_segments) = 3

----------------------------------------------------------------------------
(* human_like_chunks over the sentences sent_tokenize gives *)

\* "?" in sent: the words that carry a question mark.
HasQuestionMark(sent) ==
    \E k \in 1..Len(sent) : sent[k] \in {"okay?", "sure?"}

\* The most words of a sentence that stands alone.
ShortSentenceWords == 6
\* The number of buffered sentences that makes a chunk.
BufferFlushSize == 2

\* " ".join(buffer)
RECURSIVE Join(_)
Join(buffer) ==
    IF Len(buffer) = 0 THEN <<>> ELSE Head(buffer) \o Join(Tail(buffer))

\* Variant: a question flushes wherever it stands.
ChunkStepAnyQuestion(st, sent, isLast) ==
    IF Len(sent) <= ShortSentenceWords /\ st.buffer = <<>>
    THEN [st EXCEPT !.chunks = Append(@, sent)]
    ELSE IF HasQuestionMark(sent)
    THEN [buffer |-> <<>>,
          chunks |-> (IF st.buffer # <<>>
                      THEN Append(st.chunks, Join(st.buffer))
                      ELSE st.chunks) \o <<sent>>]
    ELSE LET buffer == Append(st.buffer, sent) IN
         IF Len(buffer) >= BufferFlushSize
         THEN [buffer |-> <<>>, chunks |-> Append(st.chunks, Join(buffer))]
         ELSE [st EXCEPT !.buffer = buffer]

\* Variant: a closing question drops what is buffered.
ChunkStepDropBuffer(st, sent, isLast) ==
    IF Len(sent) <= ShortSentenceWords /\ st.buffer = <<>>
    THEN [st EXCEPT !.chunks = Append(@, sent)]
    ELSE IF HasQuestionMark(sent) /\ isLast
    THEN [buffer |-> <<>>, chunks |-> Append(st.chunks, sent)]
    ELSE LET buffer == Append(st.buffer, sent) IN
         IF Len(buffer) >= BufferFlushSize
         THEN [buffer |-> <<>>, chunks |-> Append(st.chunks, Join(buffer))]
         ELSE [st EXCEPT !.buffer = buffer]

\* The body of the loop of human_like_chunks for one sentence.
ChunkStep(st, sent, isLast) ==
    IF Len(sent) <= ShortSentenceWords /\ st.buffer = <<>>
    THEN [st EXCEPT !.chunks = Append(@, sent)]
    ELSE IF HasQuestionMark(sent) /\ isLast
    THEN [buffer |-> <<>>,
          chunks |-> (IF st.buffer # <<>>
                      THEN Append(st.chunks, Join(st.buffer))
                      ELSE st.chunks) \o <<sent>>]
    ELSE LET buffer == Append(st.buffer, sent) IN
         IF Len(buffer) >= BufferFlushSize
         THEN [buffer |-> <<>>, chunks |-> Append(st.chunks, Join(buffer))]
         ELSE [st EXCEPT !.buffer = buffer]

\* The sentences of the replies.
Sentence ==
    [Hi |-> <<"Hi.">>,
     IsThisOkay |-> <<"Is", "this", "okay?">>,
     IThinkSo |-> <<"I", "think", "so.">>,
     Thanks |-> <<"Thanks.">>,
     SixWords |-> <<"This", "one", "has", "six", "words", "exactly.">>,
     LongStatement |-> <<"This", "one", "has", "seven", "words", "in", "it.">>,
     LongQuestion |-> <<"Are", "you", "with", "all", "of", "this", "sure?">>]
Sentences == {Sentence[k] : k \in DOMAIN Sentence}

MaxSentences == 4

\* human_like_chunks is called: empty chunks, empty buffer.
BeginChunks(sentences) ==
    /\ call.pc = "idle"
    /\ call' = [pc |-> "chunk", fn |-> "human_like_chunks",
                sentences |-> sentences, i |-> 1, buffer |-> <<>>,
                chunks |-> <<>>]
    /\ UNCHANGED <<state, engines, bot_rows>>

\* One iteration of the loop.
ChunkSentence ==
    /\ call.pc = "chunk"
    /\ call.i <= Len(call.sentences)
    /\ LET st == ChunkStep([buffer |-> call.buffer, chunks |-> call.chunks],
                           call.sentences[call.i],
                           call.i = Len(call.sentences))
       IN call' = [call EXCEPT !.i = @ + 1, !.buffer = st.buffer,
                               !.chunks = st.chunks]
    /\ UNCHANGED <<state, engines, bot_rows>>

\* After the loop: what is left in the buffer becomes the last chunk.
ChunkFlush ==
    /\ call.pc = "chunk"
    /\ call.i > Len(call.sentences)
    /\ call' = [call EXCEPT !.pc = "done", !.buffer = <<>>,
                            !.chunks = IF call.buffer # <<>>
                                       THEN Append(@, Join(call.buffer))
                                       ELSE @]
    /\ UNCHANGED <<state, engines, bot_rows>>

PostProcessingNext ==
    \/ \E enabled \in BOOLEAN,
          m \in {<<>>, <<"Hi">>,
                 <<"Hello", "world", "this", "is", "a", "test", "message">>},
          segs \in {<<>>, <<<<"fine">>>>, <<<<"Hello">>, <<"World">>>>,
                    <<<<"Part", "1">>, <<"Part", "2">>, <<"Part", "3">>>>,
                    <<<<"Part", "2">>, <<"Part", "1">>, <<"Part", "2">>>>} :
          CalculateTypingDelays(enabled, m, segs)
    \/ call.pc = "idle"
          /\ \E sentences \in
                   UNION {[1..n -> Sentences] : n \in 0..MaxSentences} :
                 BeginChunks(sentences)
    \/ ChunkSentence
    \/ ChunkFlush
    \/ CallReturn

PostProcessingSpec == Init /\ [][PostProcessingNext]_vars

\* C22: human_like_chunks takes the sentences in order; a sentence of at most
\* 6 words met with an empty buffer becomes its own chunk; otherwise a
\* question in last position flushes the buffered sentences as one chunk and
\* then becomes its own chunk; otherwise the sentence is buffered and the
\* buffer is flushed as one chunk as soon as it holds 2 sentences; what is
\* left in the buffer is flushed at the end; "Hi. Is this okay? I think so.
\* Thanks." gives four single-sentence chunks.
C22_ChunkingRule ==
    [][(call.pc = "chunk" /\ call'.pc # "idle") =>
          LET n == Len(call.sentences)
              sent == call.sentences[call.i]
              buffered == Append(call.buffer, sent)
          IN IF call.i > n
             THEN /\ call'.pc = "done"
                  /\ call'.chunks = IF call.buffer = <<>> THEN call.chunks
                                    ELSE Append(call.chunks, Join(call.buffer))
                  /\ call'.sentences = <<Sentence.Hi, Sentence.IsThisOkay,
                                          Sentence.IThinkSo, Sentence.Thanks>>
                        => call'.chunks = <<Sentence.Hi, Sentence.IsThisOkay,
                                            Sentence.IThinkSo, Sentence.Thanks>>
             ELSE /\ call'.i = call.i + 1
                  /\ call'.pc = "chunk"
                  /\ IF Len(sent) <= 6 /\ call.buffer = <<>>
                     THEN /\ call'.chunks = Append(call.chunks, sent)
                          /\ call'.buffer = <<>>
                     ELSE IF HasQuestionMark(sent) /\ call.i = n
                     THEN /\ call'.chunks =
                               IF call.buffer = <<>>
                               THEN Append(call.chunks, sent)
                               ELSE call.chunks \o <<Join(call.buffer), sent>>
                          /\ call'.buffer = <<>>
                     ELSE IF Len(buffered) = 2
                     THEN /\ call'.chunks = Append(call.chunks, Join(buffered))
                          /\ call'.buffer = <<>>
                     ELSE /\ call'.chunks = call.chunks
                          /\ call'.buffer = buffered
                          /\ Len(buffered) = 1]_vars

\* A long statement was buffered and a question in last position has flushed
\* it and become its own chunk.
C22_Witness ==
    /\ call.pc = "done"
    /\ call.fn = "human_like_chunks"
    /\ call.sentences =
          <<Sentence.Hi, Sentence.LongStatement, Sentence.IsThisOkay>>
    /\ call.chunks =
          <<Sentence.Hi, Sentence.LongStatement, Sentence.IsThisOkay>>

----------------------------------------------------------------------------
(* The Bedrock adapter's prompt pipeline: BedrockEngine._create_pipeline *)

\* conversation_dict(system_role="user", user_role="user",
\*                   assistant_role="assistant", function_role="user")
BedrockRole(role) ==
    CASE role = "system" -> "user"
      [] role = "user" -> "user"
      [] role = "assistant" -> "assistant"
      [] OTHER -> "user"

\* _transform_content of a text message
TransformContent(content) == <<[text |-> content]>>

\* conversation_dict: one {role, content} dict per message, in order.
ConversationDict(messages) ==
    [i \in 1..Len(messages) |->
        [role |-> BedrockRole(messages[i].role),
         content |-> TransformContent(messages[i].content)]]

StartFiller ==
    [role |-> "user",
     content |-> <<[text |-> <<"You", "are", "a", "helpful", "assistant.">>]>>]
EndFiller == [role |-> "user", content |-> <<[text |-> <<"Continue">>]>>]

\* _ensure_starts_with_user
EnsureStartsWithUser(messages) ==
    IF Len(messages) = 0 \/ messages[1].role # "user"
    THEN <<StartFiller>> \o messages
    ELSE messages

\* Variant: the closing turn is appended whatever the last role is.
AlwaysAppendEndFiller(messages) == Append(messages, EndFiller)

\* _ensure_ends_with_user
EnsureEndsWithUser(messages) ==
    IF Len(messages) = 0 \/ messages[Len(messages)].role # "user"
    THEN Append(messages, EndFiller)
    ELSE messages

MaxMessages == 3
\* The chat messages a turn may hand over: every role of kani's ChatRole.
MessageLists ==
    UNION {[1..n -> [role : {"system", "user", "assistant", "function"},
                     content : {<<"Hello">>, <<"Continue">>}]] :
           n \in 0..MaxMessages}

\* predict / stream hand the messages to the pipeline; its first step is
\* conversation_dict.
BeginPipeline(messages) ==
    /\ call.pc = "idle"
    /\ call' = [pc |-> "starts", fn |-> "pipeline", messages |-> messages,
                conversation |-> ConversationDict(messages)]
    /\ UNCHANGED <<state, engines, bot_rows>>

\* macro_apply(_ensure_starts_with_user)
PipelineEnsureStart ==
    /\ call.pc = "starts"
    /\ call' = [call EXCEPT !.pc = "ends",
                   !.conversation = EnsureStartsWithUser(call.conversation)]
    /\ UNCHANGED <<state, engines, bot_rows>>

\* macro_apply(_ensure_ends_with_user): the conversation is complete.
PipelineEnsureEnd ==
    /\ call.pc = "ends"
    /\ call' = [call EXCEPT !.pc = "done",
                   !.conversation = EnsureEndsWithUser(call.conversation)]
    /\ UNCHANGED <<state, engines, bot_rows>>

BedrockNext ==
    \/ call.pc = "idle" /\ \E messages \in MessageLists :
                                BeginPipeline(messages)
    \/ PipelineEnsureStart
    \/ PipelineEnsureEnd
    \/ CallReturn

BedrockSpec == Init /\ [][BedrockNext]_vars

\* C23: for every input message sequence, the empty one included, the
\* pipeline's output starts and ends with a user-role message; system and
\* function roles are mapped to user; the input messages keep their order
\* and content; one filler turn stands before them exactly when the input
\* does not start with a (mapped) user role, one after them exactly when a
\* non-empty input does not end with one, and for the empty input the single
\* filler is both ends.
C23_StartsAndEndsWithUser ==
    (call.pc = "done" /\ call.fn = "pipeline") =>
        LET in == call.messages
            out == call.conversation
            userLike == {"system", "user", "function"}
            front == IF in = <<>> \/ in[1].role \notin userLike THEN 1 ELSE 0
            back == IF in # <<>> /\ in[Len(in)].role \notin userLike
                    THEN 1 ELSE 0
        IN /\ Len(out) >= 1
           /\ out[1].role = "user"
           /\ out[Len(out)].role = "user"
           /\ Len(out) = Len(in) + front + back
           /\ \A i \in 1..Len(in) :
                 /\ out[front + i].role =
                       (IF in[i].role \in userLike THEN "user" ELSE "assistant")
                 /\ out[front + i].content = <<[text |-> in[i].content]>>

\* An input that violates the constraint at both ends.
C23_Witness ==
    /\ call.pc = "done"
    /\ call.fn = "pipeline"
    /\ Len(call.messages) = 2
    /\ call.messages[1].role = "assistant"
    /\ call.messages[2].role = "assistant"
    /\ Len(call.conversation) = 4

----------------------------------------------------------------------------
(* The engine map: server/engine.py get_or_create_engine_from_model, called *)
(* by every turn between its history load and its model call with the       *)
(* module's engine_instances.  The function has no suspension point, so a   *)
(* call is one step of the turn that makes it.                              *)

\* An engine object: the n-th one initialised for its key.
Engine(key, n) == [key |-> key, serial |-> n]

\* Variant: the map is not consulted.
NeverCached(instances, key) == FALSE

\* engine_key in engine_instances
IsCached(instances, key) == key \in DOMAIN instances

\* engine_instances[engine_key] = engine
WithEngine(instances, key, engine) ==
    [k \in DOMAIN instances \cup {key} |->
        IF k = key THEN engine ELSE instances[k]]

\* A turn resolves the engine of its bot's model; `credentials` tells
\* whether the provider's keys are in the environment.
ResolveEngine(t, model, credentials) ==
    LET key == <<model.provider, model.model_id>>
        new == Engine(key, initialised[key] + 1)
        Result(out, engine) ==
            [pc |-> "done", fn |-> "get_or_create_engine_from_model",
             turn |-> t, key |-> key, out |-> out, engine |-> engine]
    IN
    /\ call.pc = "idle"
    /\ IF IsCached(engine_instances, key)
       THEN /\ call' = Result("returned", engine_instances[key])
            /\ UNCHANGED engines
       ELSE IF \/ model.provider \notin {"OpenAI", "Anthropic", "Bedrock"}
               \/ ~credentials
       THEN /\ call' = Result("raised", Engine(key, 0))
            /\ UNCHANGED engines
       ELSE /\ engine_instances' = WithEngine(engine_instances, key, new)
            /\ initialised' = [initialised EXCEPT ![key] = @ + 1]
            /\ call' = Result("returned", new)
    /\ UNCHANGED <<state, bot_rows>>

EngineNext ==
    \/ \E t \in RaceTasks,
          model \in [provider : Providers, model_id : ModelIds],
          credentials \in BOOLEAN :
          ResolveEngine(t, model, credentials)
    \/ CallReturn

EngineSpec == Init /\ [][EngineNext]_vars

\* C24: whatever the order in which concurrent turns resolve engines on the
\* shared map, at most one engine is ever initialised for a key, a resolve
\* that returns gives the engine the map holds for its key, an engine in the
\* map is never replaced or removed, and a resolve touches no other key.
C24_OneEnginePerKey ==
    [][/\ \A k \in EngineKeys : initialised'[k] <= 1
       /\ \A k \in DOMAIN engine_instances :
             /\ k \in DOMAIN engine_instances'
             /\ engine_instances'[k] = engine_instances[k]
       /\ (call'.pc = "done" /\ call.pc = "idle") =>
             /\ call'.out = "returned" =>
                   /\ call'.key \in DOMAIN engine_instances'
                   /\ call'.engine = engine_instances'[call'.key]
             /\ DOMAIN engine_instances' \subseteq
                   DOMAIN engine_instances \cup {call'.key}]_vars

\* The second turn resolves a key the first turn has initialised, with
\* another key in the map as well.
C24_Witness ==
    /\ call.pc = "done"
    /\ call.turn = 2
    /\ call.out = "returned"
    /\ call.key = <<"Bedrock", "m1">>
    /\ call.engine = Engine(call.key, 1)
    /\ <<"OpenAI", "m1">> \in DOMAIN engine_instances
    /\ initialised[call.key] = 1

----------------------------------------------------------------------------
(* Bot configuration: the paths that write the Bot table, and the first     *)
(* checks of generate_followup_message that read it.                        *)

ConfiguredBots == {"once", "ghost"}
NoModel == "None"

\* What an administrator may submit in the bot form.
BotForms ==
    [ai_model : {NoModel, "m1"}, follow_up_on_idle : BOOLEAN,
     follow_up_instruction_prompt : {<<>>, <<"check", "in">>}]

\* A row created with the defaults of the model's fields.
DefaultFollowupSettings ==
    [follow_up_on_idle |-> FALSE, follow_up_instruction_prompt |-> <<>>]

\* Variant: only the model is validated.
CleanModelOnly(form) ==
    IF form.ai_model = NoModel THEN "ai_model" ELSE ""

\* BotAdminForm.clean: the field the form is rejected for, "" when valid.
Clean(form) ==
    IF form.ai_model = NoModel THEN "ai_model"
    ELSE IF form.follow_up_on_idle /\ form.follow_up_instruction_prompt = <<>>
    THEN "follow_up_instruction_prompt"
    ELSE ""

WithRow(rows, b, row) ==
    [k \in DOMAIN rows \cup {b} |-> IF k = b THEN row ELSE rows[k]]

Outcome(fn, b, out) == [pc |-> "done", fn |-> fn, bot |-> b, out |-> out]

\* The admin saves a bot (new or existing) through BotAdminForm.
AdminSaveBot(b, form) ==
    /\ call.pc = "idle"
    /\ IF Clean(form) # ""
       THEN /\ call' = Outcome("BotAdminForm", b, Clean(form))
            /\ UNCHANGED bot_rows
       ELSE /\ call' = Outcome("BotAdminForm", b, "saved")
            /\ bot_rows' = WithRow(bot_rows, b, FollowupSettings(form))
    /\ UNCHANGED <<state, engines>>

\* ListBotsAPIView.post: a bot is created with the follow-up defaults; the
\* name is unique.
ApiCreateBot(b) ==
    /\ call.pc = "idle"
    /\ IF b \in DOMAIN bot_rows
       THEN /\ call' = Outcome("ListBotsAPIView.post", b, "error")
            /\ UNCHANGED bot_rows
       ELSE /\ call' = Outcome("ListBotsAPIView.post", b, "created")
            /\ bot_rows' = WithRow(bot_rows, b, DefaultFollowupSettings)
    /\ UNCHANGED <<state, engines>>

\* BotDetailAPIView.put: name, model, prompt, initial utterance and avatar
\* type are written; the follow-up settings stay.
ApiUpdateBot(b) ==
    /\ call.pc = "idle"
    /\ call' = Outcome("BotDetailAPIView.put", b,
                       IF b \in DOMAIN bot_rows THEN "updated"
                       ELSE "Bot not found")
    /\ UNCHANGED <<state, engines, bot_rows>>

\* BotDetailAPIView.delete
ApiDeleteBot(b) ==
    /\ call.pc = "idle"
    /\ IF b \in DOMAIN bot_rows
       THEN /\ call' = Outcome("BotDetailAPIView.delete", b, "deleted")
            /\ bot_rows' = [k \in DOMAIN bot_rows \ {b} |-> bot_rows[k]]
       ELSE /\ call' = Outcome("BotDetailAPIView.delete", b, "Bot not found")
            /\ UNCHANGED bot_rows
    /\ UNCHANGED <<state, engines>>

\* load_bots: update_or_create by name with the prompt only.
LoadBot(b) ==
    /\ call.pc = "idle"
    /\ call' = Outcome("load_bots", b, "loaded")
    /\ bot_rows' = IF b \in DOMAIN bot_rows THEN bot_rows
                   ELSE WithRow(bot_rows, b, DefaultFollowupSettings)
    /\ UNCHANGED <<state, engines>>

\* generate_followup_message up to the idle check: the bot is fetched and
\* its follow-up settings are tested.
FollowupPrecheck(b) ==
    /\ call.pc = "idle"
    /\ call' = Outcome("generate_followup_message", b,
          IF b \notin DOMAIN bot_rows THEN "Bot not found"
          ELSE IF ~bot_rows[b].follow_up_on_idle THEN "not enabled"
          ELSE IF bot_rows[b].follow_up_instruction_prompt = <<>>
          THEN "no instruction prompt"
          ELSE "idle check")
    /\ UNCHANGED <<state, engines, bot_rows>>

ConfigNext ==
    \/ \E b \in ConfiguredBots, form \in BotForms : AdminSaveBot(b, form)
    \/ \E b \in ConfiguredBots : ApiCreateBot(b)
    \/ \E b \in ConfiguredBots : ApiUpdateBot(b)
    \/ \E b \in ConfiguredBots : ApiDeleteBot(b)
    \/ \E b \in ConfiguredBots : LoadBot(b)
    \/ \E b \in BotNames : FollowupPrecheck(b)
    \/ CallReturn

ConfigSpec == Init /\ [][ConfigNext]_vars

----------------------------------------------------------------------------
(* Conversation initialisation with its response:                           *)
(* InitializeConversationAPIView.post, load_conversation_history            *)

\* Variant: the messages are returned newest first.
FrontendMessagesNewestFirst(us) ==
    [i \in 1..Len(us) |->
        [sender |-> IF us[Len(us) + 1 - i].speaker_id = "user"
                    THEN "You" ELSE "AI Chatbot",
         content |-> us[Len(us) + 1 - i].text]]

\* load_conversation_history: the rows in creation order in the frontend's
\* format.
FrontendMessages(us) ==
    [i \in 1..Len(us) |->
        [sender |-> IF us[i].speaker_id = "user" THEN "You" ELSE "AI Chatbot",
         content |-> us[i].text]]

\* The JSON the handler answers with.
InitializeResponse(b, c) ==
    IF b \notin KnownBots
    THEN [status |-> 404, is_existing |-> FALSE, existing_messages |-> <<>>]
    ELSE IF c \in conversations
    THEN [status |-> 200, is_existing |-> TRUE,
          existing_messages |-> FrontendMessages(utter[c])]
    ELSE [status |-> 200, is_existing |-> FALSE,
          existing_messages |->
             IF Bot(b).initial_utterance # <<>>
             THEN <<[sender |-> "AI Chatbot",
                     content |-> Bot(b).initial_utterance]>>
             ELSE <<>>]

\* One initialise request, answered.
InitializeAnswered(b, c) ==
    /\ call.pc = "idle"
    /\ InitializeConversation(b, c)
    /\ call' = [pc |-> "done", fn |-> "InitializeConversationAPIView.post",
                bot |-> b, conv |-> c, response |-> InitializeResponse(b, c)]
    /\ UNCHANGED <<engines, bot_rows>>

InitNext ==
    \/ \E b \in {"plain", "once", "ghost"}, c \in {"c1"} :
          AllFree /\ InitializeAnswered(b, c)
    \/ CallReturn
    \/ \E t \in TaskIds, b \in {"plain", "once", "ghost"}, c \in {"c1"},
          m \in {Hello, Bad} :
          call.pc = "idle" /\ StartChat(t, b, c, m)
    \/ \E t \in TaskIds : BlockedSaveUser(t)
    \/ \E t \in TaskIds : BlockedSaveWarning(t)
    \/ \E t \in TaskIds : ChatLoadAndInvoke(t)
    \/ \E t \in TaskIds, r \in Replies : ChatModelReturn(t, r)
    \/ \E t \in TaskIds : SaveUser(t)
    \/ \E t \in TaskIds : ChatSaveAssistant(t)
    \/ \E c \in {"c1"} : AllFree /\ call.pc = "idle" /\ CacheExpire(c)

InitSpec == Init /\ [][InitNext]_vars

InitialUtteranceRows(rows, b) ==
    {i \in 1..Len(rows) : /\ rows[i].speaker_id = "assistant"
                          /\ rows[i].text = Bot(b).initial_utterance}

\* C26: an initialise request for a conversation id that exists creates no
\* Conversation and no Utterance and answers with the existing messages in
\* creation order, flagged as existing; a request for a new id with a known
\* bot creates the Conversation and, when the bot has an initial utterance,
\* exactly one assistant Utterance holding it; no conversation is ever
\* removed, so the initial utterance is stored once however many initialise
\* requests follow.
C26_CreatedOnce ==
    [][/\ conversations \subseteq conversations'
       /\ (call.pc = "idle" /\ call'.pc = "done"
              /\ call'.fn = "InitializeConversationAPIView.post") =>
             LET c == call'.conv
                 b == call'.bot
                 rows == utter[c]
                 resp == call'.response
             IN IF c \in conversations /\ b \in KnownBots
                THEN /\ conversations' = conversations
                     /\ utter' = utter
                     /\ resp.is_existing
                     /\ Len(resp.existing_messages) = Len(rows)
                     /\ \A i \in 1..Len(rows) :
                           /\ resp.existing_messages[i].content = rows[i].text
                           /\ resp.existing_messages[i].sender = "You"
                                 <=> rows[i].speaker_id = "user"
                ELSE IF b \in KnownBots
                THEN /\ conversations' = conversations \cup {c}
                     /\ ~resp.is_existing
                     /\ rows = <<>>
                     /\ IF Bot(b).initial_utterance = <<>>
                        THEN utter' = utter
                        ELSE /\ Len(utter'[c]) = 1
                             /\ InitialUtteranceRows(utter'[c], b) = {1}
                ELSE /\ conversations' = conversations
                     /\ utter' = utter
       /\ \A c \in Convs :
             Cardinality(InitialUtteranceRows(utter'[c], "once")) <= 1]_vars

\* A conversation created with an initial utterance has had a turn and is
\* initialised again: three messages are returned, flagged as existing.
C26_Witness ==
    /\ call.pc = "done"
    /\ call.fn = "InitializeConversationAPIView.post"
    /\ call.response.is_existing
    /\ Len(call.response.existing_messages) = 3
    /\ call.response.existing_messages[1].content = Bot("once").initial_utterance
    /\ call.response.existing_messages[2].sender = "You"
    /\ Cardinality(InitialUtteranceRows(utter[call.conv], "once")) = 1

----------------------------------------------------------------------------
\* C27: for a positive limit L the chat history handed to the model for a
\* new regular turn has at most L entries counting the new user message
\* (limit 1: the new message alone; limit 5 over 15 rows: 5 entries).
C27_LimitCountsNewMessage ==
    \A t \in TaskIds :
        (/\ tasks[t].kind = "chat"
         /\ tasks[t].pc = "model"
         /\ Limit(tasks[t]) > 0)
        => /\ Len(tasks[t].handed) <= Limit(tasks[t])
           /\ Limit(tasks[t]) = 1
                 => tasks[t].handed = <<Entry("user", tasks[t].msg)>>

\* C28: the history window a turn (regular or follow-up) sends to the model
\* is the one the durable rows give, whether or not the conversation has a
\* cache entry: the cache never changes what the model is sent.
C28_CacheIsOptimisation ==
    \A t \in TaskIds :
        tasks[t].pc = "model" =>
            tasks[t].window =
                Truncate(HistoryFromUtterances(utter[tasks[t].conv]),
                         Limit(tasks[t]))

\* C29: concurrent regular turns on one conversation are not serialised.
\* The write-back of a turn replaces the cache entry by the list this turn
\* loaded (cut to its limit) with its own message and reply, whatever
\* another turn has written since, while each save appends one row to the
\* log; so two turns that both load before either writes back leave a cache
\* entry with one turn's two messages over a log of four rows, which can
\* hold both user messages before both replies.
C29_ConcurrentTurnsRace ==
    [][\A t \in DOMAIN tasks :
          LET task == tasks[t]
              c == task.conv
          IN (task.kind = "chat" /\ tasks'[t] # task) =>
                /\ task.pc = "model" /\ tasks'[t].pc \in {"save_user", "save_asst"}
                   => /\ cache'[c].present
                      /\ cache'[c].value =
                            task.window \o
                               <<Entry("user", task.msg),
                                 Entry("assistant", tasks'[t].reply)>>
                      /\ utter' = utter
                /\ (task.pc \in {"save_user", "save_asst"} /\ c \in conversations)
                   => /\ Len(utter'[c]) = Len(utter[c]) + 1
                      /\ SubSeq(utter'[c], 1, Len(utter[c])) = utter[c]
                      /\ cache' = cache]_vars

\* Two turns have raced: both are done, the log holds the two user messages
\* before the two replies, the cache entry holds two messages only.
C29_Witness ==
    /\ \A t \in RaceTasks :
          /\ tasks[t].kind = "chat"
          /\ tasks[t].pc = "done"
          /\ tasks[t].out = "returned"
          /\ tasks[t].blocked = ""
          /\ tasks[t].conv = "c1"
          /\ tasks[t].calls = 1
    /\ Len(utter["c1"]) = 4
    /\ utter["c1"][1].speaker_id = "user"
    /\ utter["c1"][2].speaker_id = "user"
    /\ utter["c1"][3].sent.called
    /\ utter["c1"][4].sent.called
    /\ utter["c1"][3].sent.history = <<>>
    /\ utter["c1"][4].sent.history = <<>>
    /\ cache["c1"].present
    /\ Len(cache["c1"].value) = 2
    /\ cache["c1"].value[1].role = "user"
    /\ cache["c1"].value[2].role = "assistant"

----------------------------------------------------------------------------
(* Turns over a durable store that can fail: inside save_chat_to_db the     *)
(* creation of the row raises, the error is logged and the turn goes on.    *)

\* Utterance.objects.create raises in the save the turn is at: no row is
\* created, save_chat_to_db returns normally and the turn continues to its
\* next statement.
SaveFails(t) ==
    LET task == tasks[t] IN
    /\ task.pc \in {"blk_user", "blk_asst", "save_user", "save_asst"}
    /\ tasks' = [tasks EXCEPT ![t] =
          CASE task.pc = "blk_user" -> [task EXCEPT !.pc = "blk_asst"]
            [] task.pc = "blk_asst" ->
                  Finished(task, "returned", WarningText(task.blocked), "")
            [] task.pc = "save_user" -> [task EXCEPT !.pc = "save_asst"]
            [] OTHER -> Finished(task, "returned", task.reply, "")]
    /\ lastFu' = NoFu
    /\ UNCHANGED <<conversations, utter, userAge, cache, coolTtl, onceTtl,
                   fuInPeriod, call, engines, bot_rows>>

FaultNext ==
    \/ \E t \in TaskIds, b \in {"once"}, c \in {"c1"},
          m \in {Hello, Bad} : StartChat(t, b, c, m)
    \/ \E t \in TaskIds : BlockedSaveUser(t)
    \/ \E t \in TaskIds : BlockedSaveWarning(t)
    \/ \E t \in TaskIds : ChatLoadAndInvoke(t)
    \/ \E t \in TaskIds, r \in Replies : ChatModelReturn(t, r)
    \/ \E t \in TaskIds : ChatModelFail(t)
    \/ \E t \in TaskIds : SaveUser(t)
    \/ \E t \in TaskIds : ChatSaveAssistant(t)
    \/ \E t \in TaskIds : FollowupLoadAndInvoke(t)
    \/ \E t \in TaskIds, r \in Replies : FollowupModelReturn(t, r)
    \/ \E t \in TaskIds : FollowupModelFail(t)
    \/ \E t \in TaskIds : FollowupSaveAssistant(t)
    \/ \E t \in TaskIds, b \in {"once"}, c \in {"c1"} :
          StartFollowup(t, b, c)
    \/ \E t \in TaskIds : CheckAndSetFlags(t)
    \/ \E t \in TaskIds : SaveFails(t)
    \/ \E b \in {"once"}, c \in {"c1"} : AllFree /\ Initialize(b, c)
    \/ \E d \in TickSteps : AllFree /\ Tick(d)

FaultSpec == Init /\ [][FaultNext]_vars

\* C30: a turn on an existing conversation that returns a reply or a warning
\* has its rows in the store: the assistant row with the returned text and,
\* for a regular turn, the user row with the message before it; a failed
\* save surfaces as an error instead.
C30_StoreErrorsSurface ==
    \A t \in TaskIds :
        LET task == tasks[t]
            rows == utter[task.conv]
        IN (/\ task.pc = "done"
            /\ task.out = "returned"
            /\ task.had_conv
            /\ task.ret \notin {NoText, RefusalText})
           => \E i \in 1..Len(rows) :
                 /\ rows[i].speaker_id = "assistant"
                 /\ rows[i].text = task.ret
                 /\ task.kind = "chat"
                       => \E j \in 1..(i - 1) :
                             /\ rows[j].speaker_id = "user"
                             /\ rows[j].text = task.msg

----------------------------------------------------------------------------
(* Refused follow-up calls *)

----------------------------------------------------------------------------
(* Idle detection *)

----------------------------------------------------------------------------
(* Recurring follow-ups, with the time the model takes to answer *)

\* Turns of one conversation; time also passes while a turn waits for its
\* model call.
LatencyNext ==
    \/ \E t \in TaskIds : StartChat(t, "recur", "c1", Hello)
    \/ \E t \in TaskIds : ChatLoadAndInvoke(t)
    \/ \E t \in TaskIds, r \in Replies : ChatModelReturn(t, r)
    \/ \E t \in TaskIds : SaveUser(t)
    \/ \E t \in TaskIds : ChatSaveAssistant(t)
    \/ \E t \in TaskIds, b \in {"recur", "once"} : StartFollowup(t, b, "c1")
    \/ \E t \in TaskIds : CheckAndSetFlags(t)
    \/ \E t \in TaskIds : FollowupLoadAndInvoke(t)
    \/ \E t \in TaskIds, r \in Replies : FollowupModelReturn(t, r)
    \/ \E t \in TaskIds : FollowupModelFail(t)
    \/ \E t \in TaskIds : FollowupSaveAssistant(t)
    \/ AllFree /\ Initialize("recur", "c1")
    \/ \E d \in TickSteps : AllFree /\ Tick(d)
    \/ \E t \in TaskIds, d \in TickSteps : tasks[t].pc = "model" /\ Tick(d)

LatencySpec == Init /\ [][LatencyNext]_vars

\* C33 as stated: a follow-up call of a recurring bot never sets the one-shot
\* flag and is granted whenever the cooldown flag is clear, whatever the
\* one-shot flag; and two follow-up replies are at least the cooldown window
\* apart: the reply of a call that began at the instant of the previous
\* reply is given no sooner than a cooldown window after the call was
\* granted.
C33_Original ==
    [][\A t \in TaskIds :
          LET task == tasks[t]
              c == task.conv
          IN (/\ task.kind = "followup"
              /\ Bot(task.bot).recurring_followup
              /\ tasks'[t] # task)
             => /\ onceTtl' = onceTtl
                /\ (task.pc = "fu_flags" /\ ~FlagSet(coolTtl[c]))
                      => tasks'[t].pc = "load"
                /\ (/\ task.pc = "save_asst"
                    /\ task.after.conv = c
                    /\ Len(utter'[c]) = Len(utter[c]) + 1)
                      => ~FlagSet(coolTtl[c])]_vars

\* C33: a follow-up call of a recurring bot never sets the one-shot flag and
\* its flag check looks at the cooldown flag alone: with the flag clear the
\* call is granted and sets the flag for the cooldown window, with the flag
\* set (less than a cooldown window since the last grant) it is refused as
\* recently sent; so two grants are at least the cooldown window apart.
C33_RecurringCooldown ==
    [][\A t \in TaskIds :
          LET task == tasks[t]
              c == task.conv
          IN (/\ task.kind = "followup"
              /\ Bot(task.bot).recurring_followup
              /\ tasks'[t] # task)
             => /\ onceTtl' = onceTtl
                /\ task.pc = "fu_flags"
                      => IF ~FlagSet(coolTtl[c])
                         THEN /\ tasks'[t].pc = "load"
                              /\ coolTtl'[c] = CooldownTimeout
                         ELSE /\ tasks'[t].pc = "done"
                              /\ tasks'[t].ret = NoText
                              /\ tasks'[t].reason = "recently sent"
                              /\ coolTtl' = coolTtl]_vars

\* A recurring follow-up is granted again in the same idle period: the call
\* began right after the previous follow-up reply, the user is still idle
\* and the one-shot flag of the conversation is clear.
C33_Witness ==
    \E t \in TaskIds :
        /\ tasks[t].kind = "followup"
        /\ tasks[t].bot = "recur"
        /\ tasks[t].pc = "load"
        /\ tasks[t].after.conv = tasks[t].conv
        /\ coolTtl[tasks[t].conv] = CooldownTimeout
        /\ ~FlagSet(onceTtl[tasks[t].conv])
        /\ userAge[tasks[t].conv] > 0

----------------------------------------------------------------------------
(* The reset request: FollowupAPIView.post with reset_flag *)

\* A reset request is answered with "Followup flag reset"; `again` tells
\* that the request before it was a reset of the same conversation.
ResetAnswered(c) ==
    /\ AllFree
    /\ call.pc \in {"idle", "done"}
    /\ call' = [pc |-> "done", fn |-> "FollowupAPIView.post", conv |-> c,
                again |-> (call.pc = "done" /\ call.conv = c)]
    /\ DeleteOnceFlag(c)
    /\ UNCHANGED <<engines, bot_rows>>

\* Reset requests among the turns of two conversations; follow-up calls may
\* come right after a reset, everything else after the client has its
\* answer.
ResetNext ==
    \/ \E c \in Convs : ResetAnswered(c)
    \/ AllFree /\ CallReturn
    \/ \E t \in TaskIds, c \in Convs :
          call.pc = "idle" /\ StartChat(t, "once", c, Hello)
    \/ \E t \in TaskIds : ChatLoadAndInvoke(t)
    \/ \E t \in TaskIds, r \in Replies : ChatModelReturn(t, r)
    \/ \E t \in TaskIds : SaveUser(t)
    \/ \E t \in TaskIds : ChatSaveAssistant(t)
    \/ \E t \in TaskIds, c \in Convs : StartFollowup(t, "once", c)
    \/ \E t \in TaskIds : CheckAndSetFlags(t)
    \/ \E t \in TaskIds : FollowupLoadAndInvoke(t)
    \/ \E t \in TaskIds, r \in Replies : FollowupModelReturn(t, r)
    \/ \E t \in TaskIds : FollowupModelFail(t)
    \/ \E t \in TaskIds : FollowupSaveAssistant(t)
    \/ \E c \in Convs : AllFree /\ call.pc = "idle" /\ Initialize("once", c)
    \/ \E d \in TickSteps : AllFree /\ call.pc = "idle" /\ Tick(d)

ResetSpec == Init /\ [][ResetNext]_vars

----------------------------------------------------------------------------
(* What a turn hands to Kani: engine, system prompt and history window, in  *)
(* run_chat_round and in run_followup_chat_round                            *)

\* A turn of the given kind prepares its model call for a Bot row, the
\* persona selected for the conversation and the history it has loaded.
PrepareModelCall(kind, bot, persona, history, message) ==
    LET \* generate_system_prompt(bot, selected_persona), used by both kinds
        system_prompt ==
            IF persona = "none" THEN bot.prompt
            ELSE (IF bot.prompt = <<>> THEN <<>> ELSE bot.prompt \o <<"\n\n">>)
                 \o <<"Additional personality instructions:", persona>>
        \* get_or_create_engine_from_model(bot.ai_model, engine_instances)
        \* in a regular turn, get_or_create_engine(bot.model_type,
        \* bot.model_id, followup_engine_instances) in a follow-up turn
        engine_key ==
            IF kind = "chat"
            THEN <<bot.ai_model.provider, bot.ai_model.model_id>>
            ELSE <<bot.model_type, bot.model_id>>
    IN
    /\ call.pc = "idle"
    /\ call' = [pc |-> "done", fn |-> "Kani", kind |-> kind, bot |-> bot,
                persona |-> persona, loaded |-> history,
                engine_key |-> engine_key,
                system_prompt |-> system_prompt,
                chat_history |->
                   BuildHistory(history, bot.max_transcript_length, message)]
    /\ UNCHANGED <<state, engines, bot_rows>>

\* Bot rows: `name` and `ai_model` are fields of the admin form, model_type
\* and model_id are not, so they keep their defaults ("OpenAI", here "m1")
\* or what a row had before ai_model was introduced.
PathNext ==
    \/ \E kind \in {"chat", "followup"},
          bot \in [ai_model : [provider : Providers, model_id : ModelIds],
                   model_type : Providers, model_id : ModelIds,
                   prompt : {<<>>, <<"be", "kind">>},
                   max_transcript_length : {-1, 0, 1}],
          persona \in {"none", "pirate"},
          history \in {<<>>, <<Entry("user", Hello),
                               Entry("assistant", <<"welcome">>)>>} :
          PrepareModelCall(kind, bot, persona, history,
                           IF kind = "chat" THEN Hello
                           ELSE <<Marker, "check", "in">>)
    \/ CallReturn

PathSpec == Init /\ [][PathNext]_vars

\* C35: whatever the kind of the turn, the engine it resolves is the one of
\* the bot's resolved model (ai_model: provider and model id), its system
\* prompt is the bot's prompt with the persona's instructions, and its
\* history is the loaded history cut to the bot's limit with the turn's
\* message after it.
C35_SameOrchestratorPath ==
    (call.pc = "done" /\ call.fn = "Kani") =>
        /\ call.engine_key =
              <<call.bot.ai_model.provider, call.bot.ai_model.model_id>>
        /\ call.system_prompt =
              IF call.persona = "none" THEN call.bot.prompt
              ELSE (IF call.bot.prompt = <<>> THEN <<>>
                    ELSE call.bot.prompt \o <<"\n\n">>)
                   \o <<"Additional personality instructions:", call.persona>>
        /\ AllButLast(call.chat_history) =
              Truncate(call.loaded, call.bot.max_transcript_length)

----------------------------------------------------------------------------
(* Chunking keeps the content *)

\* C36: throughout human_like_chunks the chunks made so far followed by the
\* buffered sentences are the sentences read so far, in order and each once;
\* at the end the chunks joined are the sentences joined, no chunk is empty
\* and no chunk holds more than 2 sentences.
C36_ChunksKeepContent ==
    (call.pc \in {"chunk", "done"} /\ call.fn = "human_like_chunks") =>
        LET read == IF call.pc = "done" THEN Len(call.sentences)
                    ELSE call.i - 1
            Ends(chunk) ==
                {k \in 1..Len(chunk) :
                    \E s \in Sentences : chunk[k] = s[Len(s)]}
        IN /\ Join(call.chunks) \o Join(call.buffer) =
                 Join(SubSeq(call.sentences, 1, read))
           /\ call.pc = "done" => call.buffer = <<>>
           /\ \A j \in 1..Len(call.chunks) :
                 /\ call.chunks[j] # <<>>
                 /\ Cardinality(Ends(call.chunks[j])) \in 1..2

\* Four sentences gave three chunks: two buffered sentences flushed as one
\* chunk, a short sentence on its own and the closing question on its own.
C36_Witness ==
    /\ call.pc = "done"
    /\ call.fn = "human_like_chunks"
    /\ call.sentences = <<Sentence.LongStatement, Sentence.IThinkSo,
                          Sentence.Hi, Sentence.LongQuestion>>
    /\ call.chunks = <<Sentence.LongStatement \o Sentence.IThinkSo,
                       Sentence.Hi, Sentence.LongQuestion>>

----------------------------------------------------------------------------
(* Concurrent follow-up calls for one conversation *)

\* C37: of the follow-up calls that are under way for one conversation at
\* most one is past the flag check; the flag check grants a call only when
\* the cooldown flag is clear and no other call of the conversation is past
\* its check, and with the grant the flag is set; every other call that
\* reaches its flag check while the flag lives is refused without a reply.
C37_OneGrantPerCooldown ==
    [][\A t \in DOMAIN tasks :
          LET task == tasks[t]
              c == task.conv
              Granted(u) ==
                  /\ tasks[u].kind = "followup"
                  /\ tasks[u].conv = c
                  /\ tasks[u].pc \in {"load", "model", "save_asst"}
          IN (task.pc = "fu_flags" /\ tasks'[t] # task) =>
                /\ \A u, v \in DOMAIN tasks : Granted(u) /\ Granted(v) => u = v
                /\ coolTtl[c] > 0 => tasks'[t].pc = "done"
                /\ IF tasks'[t].pc = "load"
                   THEN /\ coolTtl[c] = 0
                        /\ \A u \in DOMAIN tasks : ~Granted(u)
                        /\ coolTtl'[c] = CooldownTimeout
                   ELSE /\ tasks'[t].pc = "done"
                        /\ tasks'[t].ret = NoText
                        /\ tasks'[t].reason \in {"already sent",
                                                 "recently sent"}
                        /\ tasks'[t].calls = 0
                        /\ UNCHANGED <<coolTtl, onceTtl>>]_vars

\* Two follow-up calls for one conversation: one was granted and waits for
\* its model with the cooldown flag fresh, the other was refused.
C37_Witness ==
    \E t, u \in DOMAIN tasks :
        /\ t # u
        /\ tasks[t].kind = "followup"
        /\ tasks[u].kind = "followup"
        /\ tasks[t].conv = tasks[u].conv
        /\ tasks[t].pc = "model"
        /\ tasks[u].pc = "done"
        /\ tasks[u].reason = "already sent"
        /\ coolTtl[tasks[t].conv] = CooldownTimeout

----------------------------------------------------------------------------
(* A follow-up turn that fails after its flags were set *)

\* C38: a granted follow-up call has set the cooldown flag and, for a
\* non-recurring bot, the one-shot flag before its model is invoked; when
\* the turn then fails, the call returns no reply with the error as reason,
\* no row is created and both flags stay as they were set; a call that
\* meets the flags so left is refused.
C38_FlagsSurviveFailure ==
    [][\A t \in TaskIds :
          LET task == tasks[t]
              c == task.conv
              oneShot == ~Bot(task.bot).recurring_followup
          IN (task.kind = "followup" /\ tasks'[t] # task) =>
                /\ task.pc \in {"load", "model"}
                   => /\ coolTtl[c] = CooldownTimeout
                      /\ oneShot => onceTtl[c] = OnceTimeout
                      /\ UNCHANGED <<coolTtl, onceTtl>>
                /\ (task.pc \in {"load", "model"} /\ tasks'[t].pc = "done")
                   => /\ tasks'[t].out = "returned"
                      /\ tasks'[t].ret = NoText
                      /\ tasks'[t].reason \in {"completion failed",
                                               "Conversation.DoesNotExist"}
                      /\ utter' = utter
                /\ (/\ task.pc = "fu_flags"
                    /\ \/ FlagSet(coolTtl[c])
                       \/ oneShot /\ FlagSet(onceTtl[c]))
                   => /\ tasks'[t].pc = "done"
                      /\ tasks'[t].ret = NoText
                      /\ tasks'[t].calls = 0]_vars

\* A follow-up call was refused for flags that a failed call has left: the
\* flags are as a grant sets them and the conversation holds its user row and
\* the row answering it, and no follow-up reply.
C38_Witness ==
    \E t \in TaskIds :
        LET c == tasks[t].conv IN
        /\ tasks[t].kind = "followup"
        /\ tasks[t].pc = "done"
        /\ tasks[t].reason = "already sent"
        /\ coolTtl[c] = CooldownTimeout
        /\ onceTtl[c] = OnceTimeout
        /\ Len(utter[c]) = 2
        /\ utter[c][1].speaker_id = "user"
        /\ fuInPeriod[c] = 0

----------------------------------------------------------------------------
(* The follow-up flags as entries of the cache, addressed by their keys *)

\* Conversation ids are strings chosen by the client (models.py 18); the
\* ids of the model.
KeyConvs == {"x", "once_x", "y"}

\* cache_key = f"followup_sent_{conversation_id}"
CooldownKey(c) == "followup_sent_" \o c

\* followup_sent_key = f"followup_sent_once_{conversation_id}"
OnceKey(c) == "followup_sent_once_" \o c

\* No flag is set; the other variables as in Init.
KeyInit ==
    /\ cache = [k \in {CooldownKey(c) : c \in KeyConvs}
                      \cup {OnceKey(c) : c \in KeyConvs} |-> 0]
    /\ conversations = {}
    /\ utter = [c \in Convs |-> <<>>]
    /\ userAge = [c \in Convs |-> NoAge]
    /\ coolTtl = [c \in Convs |-> 0]
    /\ onceTtl = [c \in Convs |-> 0]
    /\ tasks = [t \in TaskIds |-> IdleTask]
    /\ lastFu = NoFu
    /\ fuInPeriod = [c \in Convs |-> 0]
    /\ call = NoCallInProgress
    /\ engine_instances = NoEngines
    /\ initialised = [k \in EngineKeys |-> 0]
    /\ bot_rows = [b \in KnownBots |-> FollowupSettings(Bot(b))]

\* generate_followup_message for an idle user, from its flag checks to its
\* flag sets: cache.get of the two keys, then cache.set of the cooldown key
\* and, for a non-recurring bot, of the one-shot key.
FlagsByKey(b, c) ==
    LET refusal == FollowupRefusal(Bot(b), FlagSet(cache[OnceKey(c)]),
                                   FlagSet(cache[CooldownKey(c)]))
        cooled == [cache EXCEPT ![CooldownKey(c)] = CooldownTimeout]
    IN
    /\ call.pc = "idle"
    /\ call' = [pc |-> "done", fn |-> "generate_followup_message",
                bot |-> b, conv |-> c, refusal |-> refusal]
    /\ cache' = IF refusal # "" THEN cache
                ELSE IF ~Bot(b).recurring_followup
                THEN [cooled EXCEPT ![OnceKey(c)] = OnceTimeout]
                ELSE cooled
    /\ UNCHANGED <<conversations, utter, userAge, coolTtl, onceTtl, tasks,
                   lastFu, fuInPeriod, engines, bot_rows>>

\* FollowupAPIView.post with reset_flag: cache.delete of the one-shot key.
ResetByKey(c) ==
    /\ call.pc = "idle"
    /\ call' = [pc |-> "done", fn |-> "FollowupAPIView.post", bot |-> "none",
                conv |-> c, refusal |-> ""]
    /\ cache' = [cache EXCEPT ![OnceKey(c)] = 0]
    /\ UNCHANGED <<conversations, utter, userAge, coolTtl, onceTtl, tasks,
                   lastFu, fuInPeriod, engines, bot_rows>>

\* Time passes between requests: the entries' times to live run down.  A
\* short step is taken while no entry is part-way through its hour (bound
\* of the model).
KeyTick(d) ==
    /\ call.pc = "idle"
    /\ d = CooldownTimeout =>
          \A k \in DOMAIN cache : cache[k] \in {0, CooldownTimeout, OnceTimeout}
    /\ cache' = [k \in DOMAIN cache |-> Max(cache[k] - d, 0)]
    /\ UNCHANGED <<conversations, utter, userAge, coolTtl, onceTtl, tasks,
                   lastFu, fuInPeriod, call, engines, bot_rows>>

KeyNext ==
    \/ \E b \in {"once", "recur"}, c \in KeyConvs : FlagsByKey(b, c)
    \/ \E c \in KeyConvs : ResetByKey(c)
    \/ \E d \in TickSteps : KeyTick(d)
    \/ CallReturn

KeySpec == KeyInit /\ [][KeyNext]_vars

\* C39: a follow-up call or a reset request on one conversation leaves the
\* cooldown flag and the one-shot flag of every other conversation as they
\* are.
C39_ConversationsIsolated ==
    [][(call.pc = "idle" /\ call'.pc = "done") =>
          \A B \in KeyConvs \ {call'.conv} :
             /\ cache'[CooldownKey(B)] = cache[CooldownKey(B)]
             /\ cache'[OnceKey(B)] = cache[OnceKey(B)]]_vars

====
